---------------------------- MODULE Spec2Model ----------------------------
(***************************************************************************)
(* A model of the "resolution" daily habit tracker: the persisted          *)
(* documents of storage.py (state.json, goals.json, shop_items.json), the  *)
(* coin ledger, the shop catalog, and the Bible reading pacer of bible.py. *)
(*                                                                         *)
(* Python floats are IEEE-754 binary64.  The pacer's arithmetic            *)
(* (1189/365, days * target, the difference of two products, int()) is     *)
(* computed here bit by bit with round-to-nearest-even, on magnitudes held *)
(* as sequences of bits, least significant bit first.                      *)
(***************************************************************************)
EXTENDS Integers, Sequences, FiniteSets, TLC

(***************************************************************************)
(* Bounds of the model.                                                    *)
(***************************************************************************)
MaxItems == 2        \* the catalog's length in the shop specification
MaxCoins == 5        \* the largest balance in the shop specification
MaxLedgerItems == 1  \* the catalog's length in the ledger specification
MaxLedgerCoins == 25 \* the largest balance in the ledger specification
MaxDay == 367        \* the last day (ordinal from 2026-01-01) of the pacing clock
MaxReadDay == 2      \* the last day of the reading specification
MaxChapters == 1195  \* the largest counter in the reading specification
MaxExtra == 2        \* the largest count of catch-up chapters entered
MaxCount == 2        \* the largest count of chapters or goals of one award
MaxAlloc == 5        \* the largest count of chapters allocated from a position
MaxRewardCoins == 50 \* the largest balance in the rewards specification
MaxCatalogItems == 2 \* the catalog's length in the catalog specification
MaxLoadCoins == 40   \* the largest balance in the loading specification
MaxDamagedCoins == 30 \* the largest balance beside a damaged document
MaxDamagedItems == 1 \* the catalog's length beside a damaged document
MaxGoalDay == 3      \* the last day of the goals specification
MaxGoalCoins == 30   \* the largest balance in the goals specification
MaxGoalHorizon == 400 \* the last day the saved goals are asked for
MaxFieldCoins == 30  \* the largest balance in the fields specification
MaxFieldChapters == 6 \* the largest counter in the fields specification
MaxPracticeDay == 3   \* the last day of the practice specification
MaxPracticeCoins == 40 \* the largest balance in the practice specification
MaxSteadyDay == 60   \* the last day of the steady reader's specification
MaxGateDay == 2      \* the last day of the routine specification
MaxFrameItems == 1   \* the catalog's length in the documents specification
MaxFrameCoins == 17  \* the largest balance in the documents specification
MaxFrameChapters == 3 \* the largest counter in the documents specification
MaxGateCoins == 20   \* the largest balance in the routine specification

(***************************************************************************)
(* binary64 arithmetic on bit sequences (least significant bit first).     *)
(***************************************************************************)
MantBits == 53

\* magnitudes are carried ChunkBits bits at a time
ChunkBits == 16

Min(a, b) == IF a < b THEN a ELSE b

Max(a, b) == IF a > b THEN a ELSE b

\* the n low bits of the natural number v
BitsOf(v, n) == [i \in 1..n |-> (v \div 2^(i - 1)) % 2]

Reverse(s) == [i \in 1..Len(s) |-> s[Len(s) + 1 - i]]

\* the magnitude without its high zero bits
BNorm(b) ==
  LET ones == {i \in 1..Len(b) : b[i] = 1}
  IN  IF ones = {} THEN <<>>
      ELSE SubSeq(b, 1, CHOOSE i \in ones : \A j \in ones : j <= i)

\* a natural number below 2^31
BFromNat(n) == BNorm(BitsOf(n, 31))

RECURSIVE BToNat(_)
\* a magnitude below 2^31
BToNat(b) == IF b = <<>> THEN 0 ELSE b[1] + 2 * BToNat(Tail(b))

BShl(b, n) == IF b = <<>> THEN <<>> ELSE [i \in 1..n |-> 0] \o b

BBit(b, i) == IF i >= 1 /\ i <= Len(b) THEN b[i] ELSE 0

\* bits i .. i + ChunkBits - 1 of b, as a number
Chunk(b, i) == BToNat([j \in 1..ChunkBits |-> BBit(b, i + j - 1)])

RECURSIVE BMulCarry(_, _, _, _)
BMulCarry(b, k, i, c) ==
  IF i > Len(b) THEN BFromNat(c)
  ELSE LET v == Chunk(b, i) * k + c
       IN  BitsOf(v % 2^ChunkBits, ChunkBits)
             \o BMulCarry(b, k, i + ChunkBits, v \div 2^ChunkBits)

\* the magnitude times a natural number below 2^14
BMulSmall(b, k) == BNorm(BMulCarry(b, k, 1, 0))

RECURSIVE BAddCarry(_, _, _, _)
BAddCarry(a, b, i, c) ==
  IF i > Len(a) /\ i > Len(b) THEN (IF c = 1 THEN <<1>> ELSE <<>>)
  ELSE LET v == Chunk(a, i) + Chunk(b, i) + c
       IN  BitsOf(v % 2^ChunkBits, ChunkBits)
             \o BAddCarry(a, b, i + ChunkBits, v \div 2^ChunkBits)

BAdd(a, b) == BNorm(BAddCarry(a, b, 1, 0))

RECURSIVE BSubBorrow(_, _, _, _)
BSubBorrow(a, b, i, c) ==
  IF i > Len(a) THEN <<>>
  ELSE LET v == Chunk(a, i) - Chunk(b, i) - c
       IN  BitsOf(v % 2^ChunkBits, ChunkBits)
             \o BSubBorrow(a, b, i + ChunkBits, IF v < 0 THEN 1 ELSE 0)

\* a - b for a >= b
BSub(a, b) == BNorm(BSubBorrow(a, b, 1, 0))

\* a < b: at the highest bit where they differ, b has the 1
BLess(a, b) ==
  \E i \in 1..Len(b) :
     /\ b[i] = 1
     /\ BBit(a, i) = 0
     /\ \A j \in (i + 1)..Max(Len(a), Len(b)) : BBit(a, j) = BBit(b, j)

\* A float is [neg, m, e]: the value (-1)^neg * m * 2^e, m a magnitude of
\* at most MantBits bits.  Zero has m = <<>>.
FZero == [neg |-> FALSE, m |-> <<>>, e |-> 0]

\* round-to-nearest-even of the exact magnitude b * 2^e to MantBits bits
FRound(neg, b0, e) ==
  LET b == BNorm(b0)
      drop == Len(b) - MantBits
  IN  IF b = <<>> THEN FZero
      ELSE IF drop <= 0 THEN [neg |-> neg, m |-> b, e |-> e]
      ELSE LET kept == SubSeq(b, drop + 1, Len(b))
               guard == b[drop]
               sticky == \E i \in 1..(drop - 1) : b[i] = 1
               up == guard = 1 /\ (sticky \/ kept[1] = 1)
               r == IF up THEN BAdd(kept, <<1>>) ELSE kept
           IN  IF Len(r) > MantBits
               THEN [neg |-> neg, m |-> Tail(r), e |-> e + drop + 1]
               ELSE [neg |-> neg, m |-> r, e |-> e + drop]

\* float(k) for an int k of small magnitude (exact)
FFromInt(k) ==
  IF k = 0 THEN FZero
  ELSE [neg |-> k < 0, m |-> BFromNat(IF k < 0 THEN -k ELSE k), e |-> 0]

RECURSIVE FracBits(_, _, _)
\* the next n bits of r / d (r < d < 2^14), most significant first, then
\* the remainder that is left
FracBits(r, d, n) ==
  IF n = 0 THEN [bits |-> <<>>, rem |-> r]
  ELSE LET k == Min(n, ChunkBits)
           t == r * 2^k
           rest == FracBits(t % d, d, n - k)
       IN  [bits |-> Reverse(BitsOf(t \div d, k)) \o rest.bits,
            rem |-> rest.rem]

FracLen == 58

\* a / b for ints 0 < a, 0 < b (Python's true division): the quotient's
\* integer part, FracLen fraction bits and a sticky bit for the remainder,
\* rounded once
FDivInt(a, b) ==
  LET f == FracBits(a % b, b, FracLen)
      st == IF f.rem = 0 THEN 0 ELSE 1
      mag == <<st>> \o Reverse(f.bits) \o BFromNat(a \div b)
  IN  FRound(FALSE, mag, -(FracLen + 1))

\* x * y of two floats
FMul(x, y) ==
  IF x.m = <<>> \/ y.m = <<>> THEN [FZero EXCEPT !.neg = (x.neg # y.neg)]
  ELSE LET small == IF Len(x.m) <= Len(y.m) THEN x ELSE y
           big == IF Len(x.m) <= Len(y.m) THEN y ELSE x
       IN  FRound(x.neg # y.neg, BMulSmall(big.m, BToNat(small.m)),
                  x.e + y.e)

\* x - y of two floats
FSub(x, y) ==
  LET e == IF x.e < y.e THEN x.e ELSE y.e
      a == BShl(x.m, x.e - e)
      b == BShl(y.m, y.e - e)
      yneg == ~y.neg
  IN  IF x.m = <<>> /\ y.m = <<>> THEN FZero
      ELSE IF x.neg = yneg THEN FRound(x.neg, BAdd(a, b), e)
      ELSE IF BLess(a, b) THEN FRound(yneg, BSub(b, a), e)
      ELSE FRound(x.neg, BSub(a, b), e)

\* int(x): truncation toward zero
FInt(x) ==
  LET mag == IF x.e >= 0 THEN BToNat(BShl(x.m, x.e))
             ELSE IF -x.e >= Len(x.m) THEN 0
             ELSE BToNat(SubSeq(x.m, 1 - x.e, Len(x.m)))
  IN  IF x.neg THEN -mag ELSE mag


(***************************************************************************)
(* Calendar dates.  A date is its ordinal, counted in days from            *)
(* 2026-01-01 (ordinal 0); its string "YYYY-MM-DD" is the triple           *)
(* <<year, month, day>>.  NoneVal is Python's None.                        *)
(***************************************************************************)
NoneVal == <<>>

IsLeap(y) == y % 4 = 0 /\ (y % 100 # 0 \/ y % 400 = 0)

DaysInMonth(y, m) ==
  IF m = 2 THEN (IF IsLeap(y) THEN 29 ELSE 28)
  ELSE IF m \in {4, 6, 9, 11} THEN 30 ELSE 31

DaysInYear(y) == IF IsLeap(y) THEN 366 ELSE 365

EpochYear == 2026

RECURSIVE DaysBeforeMonth(_, _)
DaysBeforeMonth(y, m) ==
  IF m = 1 THEN 0 ELSE DaysBeforeMonth(y, m - 1) + DaysInMonth(y, m - 1)

RECURSIVE DaysBeforeYear(_)
\* days from 2026-01-01 to y-01-01 (negative before 2026)
DaysBeforeYear(y) ==
  IF y = EpochYear THEN 0
  ELSE IF y > EpochYear THEN DaysBeforeYear(y - 1) + DaysInYear(y - 1)
  ELSE DaysBeforeYear(y + 1) - DaysInYear(y)

\* datetime.strptime(s, "%Y-%m-%d").date()
strptime(s) == DaysBeforeYear(s[1]) + DaysBeforeMonth(s[1], s[2]) + (s[3] - 1)

RECURSIVE YmdFrom(_, _, _)
YmdFrom(y, m, n) ==
  IF n < 0 THEN YmdFrom(y - 1, 1, n + DaysInYear(y - 1))
  ELSE IF m = 1 /\ n >= DaysInYear(y) THEN YmdFrom(y + 1, 1, n - DaysInYear(y))
  ELSE IF n >= DaysInMonth(y, m) THEN YmdFrom(y, m + 1, n - DaysInMonth(y, m))
  ELSE <<y, m, n + 1>>

\* str(d) of a date d
date_str(d) == YmdFrom(EpochYear, 1, d)

(***************************************************************************)
(* The persisted documents.  A file is [exists, data]; json.dump and       *)
(* json.load carry ints, strings, booleans, None, lists and dicts of them  *)
(* unchanged, and the code writes nothing else.                            *)
(***************************************************************************)
NoFile == [exists |-> FALSE, data |-> <<>>]

_load_json(file, default) == IF ~file.exists THEN default ELSE file.data

_save_json(data) == [exists |-> TRUE, data |-> data]

StateKeys ==
  {"last_run_date", "coins", "completed_leetcode_ids", "bible_chapters_read",
   "start_date"}

default_state ==
  [last_run_date |-> NoneVal,
   coins |-> 0,
   completed_leetcode_ids |-> <<>>,
   bible_chapters_read |-> 0,
   start_date |-> <<2026, 1, 1>>]

\* get_state with the merge the other way round: the defaults win
get_state_defaults_win(sf) ==
  LET state == _load_json(sf, default_state)
  IN  [k \in StateKeys \cup DOMAIN state |->
         IF k \in StateKeys THEN default_state[k] ELSE state[k]]

\* the persisted document with every missing key of the defaults filled in
get_state(sf) ==
  LET state == _load_json(sf, default_state)
  IN  [k \in StateKeys \cup DOMAIN state |->
         IF k \in DOMAIN state THEN state[k] ELSE default_state[k]]

save_state(state) == _save_json(state)

get_coins(sf) == get_state(sf)["coins"]

\* the ledger: each returns the file it leaves and its return value
add_coins(sf, amount) ==
  LET state == get_state(sf)
      new == [state EXCEPT !["coins"] = state["coins"] + amount]
  IN  [file |-> save_state(new), ret |-> new["coins"]]

\* spend_coins without its guard
spend_coins_nocheck(sf, amount) ==
  LET state == get_state(sf)
      current == state["coins"]
  IN  [file |-> save_state([state EXCEPT !["coins"] = current - amount]),
       ret |-> TRUE]

\* spend_coins with the guard current <= amount: the whole balance cannot be
\* spent
spend_coins_strict(sf, amount) ==
  LET state == get_state(sf)
      current == state["coins"]
  IN  IF current <= amount THEN [file |-> sf, ret |-> FALSE]
      ELSE [file |-> save_state([state EXCEPT !["coins"] = current - amount]),
            ret |-> TRUE]

spend_coins(sf, amount) ==
  LET state == get_state(sf)
      current == state["coins"]
  IN  IF current < amount THEN [file |-> sf, ret |-> FALSE]
      ELSE [file |-> save_state([state EXCEPT !["coins"] = current - amount]),
            ret |-> TRUE]

(***************************************************************************)
(* The daily gate (state.json's last_run_date) and the goals document      *)
(* (goals.json: the date of the save and the goals).                       *)
(***************************************************************************)
\* ran_today without the comparison: any recorded run counts
ran_today_any_day(sf, tdy) ==
  get_state(sf)["last_run_date"] # NoneVal

ran_today(sf, tdy) ==
  LET last_run == get_state(sf)["last_run_date"]
  IN  IF last_run = NoneVal THEN FALSE ELSE last_run = date_str(tdy)

\* mark_ran_today that saves a fresh state instead of the loaded one
mark_ran_today_fresh(sf, tdy) ==
  save_state([default_state EXCEPT !["last_run_date"] = date_str(tdy)])

mark_ran_today(sf, tdy) ==
  LET state == get_state(sf)
  IN  save_state([state EXCEPT !["last_run_date"] = date_str(tdy)])

NoGoals == [date |-> NoneVal, goals |-> <<>>]

\* get_todays_goals without the date test: whatever is on file
get_todays_goals_stale(gf, tdy) == _load_json(gf, NoGoals).goals

get_todays_goals(gf, tdy) ==
  LET data == _load_json(gf, NoGoals)
  IN  IF data.date # date_str(tdy) THEN <<>> ELSE data.goals

save_todays_goals(goals, tdy) ==
  _save_json([date |-> date_str(tdy), goals |-> goals])

(***************************************************************************)
(* The shop catalog (shop_items.json: a list of items).                    *)
(***************************************************************************)
get_shop_items(shf) == _load_json(shf, <<>>)

save_shop_items(items) == _save_json(items)

add_shop_item(shf, name, cost) ==
  LET items == get_shop_items(shf)
      item == [id |-> Len(items) + 1, name |-> name, cost |-> cost,
               purchased |-> FALSE]
  IN  [file |-> save_shop_items(Append(items, item)), ret |-> item]

\* the index of the first item the loop "for item in items" finds with the
\* id, 0 when there is none
FirstWithId(items, item_id) ==
  IF \E i \in 1..Len(items) : items[i].id = item_id
  THEN CHOOSE i \in 1..Len(items) :
         /\ items[i].id = item_id
         /\ \A j \in 1..(i - 1) : items[j].id # item_id
  ELSE 0

\* update_shop_item with "if name:" and "if cost:" for the two "is not
\* None" tests: a cost of 0 is not written
update_shop_item_truthy(shf, item_id, name, cost) ==
  LET items == get_shop_items(shf)
      i == FirstWithId(items, item_id)
      named == IF name # <<>> /\ name # <<"">>
               THEN [items EXCEPT ![i].name = name[1]]
               ELSE items
      costed == IF cost # <<>> /\ cost # <<0>>
                THEN [named EXCEPT ![i].cost = cost[1]]
                ELSE named
  IN  IF i = 0 THEN [file |-> shf, ret |-> FALSE]
      ELSE [file |-> save_shop_items(costed), ret |-> TRUE]

\* name and cost are optional: <<>> is None, <<v>> is the value v
update_shop_item(shf, item_id, name, cost) ==
  LET items == get_shop_items(shf)
      i == FirstWithId(items, item_id)
      named == IF name # <<>> THEN [items EXCEPT ![i].name = name[1]]
               ELSE items
      costed == IF cost # <<>> THEN [named EXCEPT ![i].cost = cost[1]]
                ELSE named
  IN  IF i = 0 THEN [file |-> shf, ret |-> FALSE]
      ELSE [file |-> save_shop_items(costed), ret |-> TRUE]

delete_shop_item(shf, item_id) ==
  LET old == get_shop_items(shf)
      items == SelectSeq(old, LAMBDA item : item.id # item_id)
  IN  IF Len(items) < Len(old)
      THEN [file |-> save_shop_items(items), ret |-> TRUE]
      ELSE [file |-> shf, ret |-> FALSE]

(***************************************************************************)
(* Rewards (coins.py, leetcode.py).                                        *)
(***************************************************************************)
REWARDS ==
  [bible_chapter |-> 5,
   bible_catchup_chapter |-> 3,
   leetcode_easy |-> 10,
   leetcode_medium |-> 25,
   leetcode_hard |-> 50,
   goal_completed |-> 15]

DIFFICULTY_COINS == [easy |-> 10, medium |-> 25, hard |-> 50]

\* award_bible_reading that pays catch-up chapters at the full rate
award_bible_reading_flat(sf, chapters, is_catchup) ==
  LET reward_type == "bible_chapter"
      coins == chapters * REWARDS[reward_type]
  IN  [file |-> add_coins(sf, coins).file, ret |-> coins]

award_bible_reading(sf, chapters, is_catchup) ==
  LET reward_type == IF is_catchup THEN "bible_catchup_chapter"
                     ELSE "bible_chapter"
      coins == chapters * REWARDS[reward_type]
  IN  [file |-> add_coins(sf, coins).file, ret |-> coins]

award_goal_completed(sf, count) ==
  LET coins == count * REWARDS["goal_completed"]
  IN  [file |-> add_coins(sf, coins).file, ret |-> coins]

\* str.lower() on the difficulty strings the model passes
lower(s) ==
  CASE s = "Easy" -> "easy"
    [] s = "Medium" -> "medium"
    [] s = "Hard" -> "hard"
    [] OTHER -> s

mark_leetcode_completed(sf, problem_id) ==
  LET state == get_state(sf)
      completed == state["completed_leetcode_ids"]
  IN  IF \A i \in 1..Len(completed) : completed[i] # problem_id
      THEN save_state([state EXCEPT !["completed_leetcode_ids"] =
                                      Append(completed, problem_id)])
      ELSE sf

\* coins.award_leetcode: REWARDS.get("leetcode_" + difficulty.lower(),
\* REWARDS["leetcode_easy"])
award_leetcode(sf, difficulty) ==
  LET d == lower(difficulty)
      coins == IF d \in {"easy", "medium", "hard"}
               THEN REWARDS[CASE d = "easy" -> "leetcode_easy"
                              [] d = "medium" -> "leetcode_medium"
                              [] d = "hard" -> "leetcode_hard"]
               ELSE REWARDS["leetcode_easy"]
  IN  [file |-> add_coins(sf, coins).file, ret |-> coins]

\* mark_problem_done that pays nothing for a difficulty it does not know
mark_problem_done_unpaid(sf, problem_id, difficulty) ==
  LET marked == mark_leetcode_completed(sf, problem_id)
      d == lower(difficulty)
      coins == IF d \in DOMAIN DIFFICULTY_COINS THEN DIFFICULTY_COINS[d]
               ELSE 0
  IN  [file |-> add_coins(marked, coins).file, ret |-> coins]

mark_problem_done(sf, problem_id, difficulty) ==
  LET marked == mark_leetcode_completed(sf, problem_id)
      d == lower(difficulty)
      coins == IF d \in DOMAIN DIFFICULTY_COINS THEN DIFFICULTY_COINS[d]
               ELSE 10
  IN  [file |-> add_coins(marked, coins).file, ret |-> coins]

\* The problem catalog (data/leetcode_problems.json is not part of the
\* sources): a list of {id, level, paid_only, hide}.
ProblemCatalog ==
  << [id |-> 1, level |-> 1, paid_only |-> FALSE, hide |-> FALSE],
     [id |-> 2, level |-> 2, paid_only |-> FALSE, hide |-> FALSE],
     [id |-> 3, level |-> 3, paid_only |-> TRUE, hide |-> FALSE],
     [id |-> 4, level |-> 1, paid_only |-> FALSE, hide |-> TRUE] >>

get_completed_leetcode_ids(sf) ==
  LET completed == get_state(sf)["completed_leetcode_ids"]
  IN  {completed[i] : i \in 1..Len(completed)}

DifficultyLevel == [easy |-> 1, medium |-> 2, hard |-> 3]

\* get_available_problems without the skip of completed ids
get_available_problems_all(sf, difficulty) ==
  LET level == DifficultyLevel[lower(difficulty)]
  IN  {ProblemCatalog[i].id : i \in
         {j \in 1..Len(ProblemCatalog) :
            /\ ~ProblemCatalog[j].paid_only
            /\ ~ProblemCatalog[j].hide
            /\ ProblemCatalog[j].level = level}}

\* the ids of the problems get_available_problems(difficulty) lists
get_available_problems(sf, difficulty) ==
  LET level == DifficultyLevel[lower(difficulty)]
      completed_ids == get_completed_leetcode_ids(sf)
  IN  {ProblemCatalog[i].id : i \in
         {j \in 1..Len(ProblemCatalog) :
            /\ ~ProblemCatalog[j].paid_only
            /\ ~ProblemCatalog[j].hide
            /\ ProblemCatalog[j].level = level
            /\ ProblemCatalog[j].id \notin completed_ids}}

(***************************************************************************)
(* The reading pacer (bible.py).                                           *)
(***************************************************************************)
TOTAL_CHAPTERS == 1189
DAYS_IN_YEAR == 365

get_daily_target == FDivInt(TOTAL_CHAPTERS, DAYS_IN_YEAR)

get_bible_progress(sf) ==
  LET state == get_state(sf)
  IN  [chapters_read |-> state["bible_chapters_read"],
       start_date |-> state["start_date"]]

\* get_days_elapsed without the + 1 that makes the start date day 1
get_days_elapsed_from_zero(sf, tdy) ==
  LET start == strptime(get_bible_progress(sf).start_date)
  IN  IF tdy < start THEN 0 ELSE tdy - start

get_days_elapsed(sf, tdy) ==
  LET start == strptime(get_bible_progress(sf).start_date)
  IN  IF tdy < start THEN 0 ELSE (tdy - start) + 1

\* days * get_daily_target(), and int() of it and of the difference of two
\* products, are computed once for each day count the clock can reach
DayCounts == 0..(MaxDay + 2)

Products == [days \in -1..(MaxDay + 2) |->
               FMul(FFromInt(days), get_daily_target)]

IntOfProduct == [days \in DayCounts |-> FInt(Products[days])]

IntOfDifference ==
  [days \in DayCounts |-> FInt(FSub(Products[days], Products[days - 1]))]

\* get_expected_chapters without its cap
expected_uncapped(days) == IntOfProduct[days]

\* min(int(days * get_daily_target()), TOTAL_CHAPTERS)
expected_for(days) == Min(IntOfProduct[days], TOTAL_CHAPTERS)

get_expected_chapters(sf, tdy) == expected_for(get_days_elapsed(sf, tdy))

\* the assignment without yesterday's product subtracted and without the
\* upper clamp
chapters_today_cumulative(days_elapsed) ==
  LET chapters_today == IntOfProduct[days_elapsed]
  IN  Max(3, chapters_today)

\* the assignment of day days_elapsed (bible.py lines 55-57)
chapters_today_for(days_elapsed) ==
  LET chapters_today == IntOfDifference[days_elapsed]
  IN  Max(3, Min(4, chapters_today))

\* get_reading_status with ahead computed from behind without the negation
get_reading_status_same_sign(sf, tdy) ==
  LET chapters_read == get_bible_progress(sf).chapters_read
      expected == get_expected_chapters(sf, tdy)
      days_elapsed == get_days_elapsed(sf, tdy)
      behind == expected - chapters_read
  IN  [chapters_read |-> chapters_read,
       expected |-> expected,
       total |-> TOTAL_CHAPTERS,
       behind |-> Max(0, behind),
       ahead |-> Max(0, behind),
       chapters_today |-> chapters_today_for(days_elapsed),
       days_elapsed |-> days_elapsed]

\* percent_complete, which only the display reads, is left out
get_reading_status(sf, tdy) ==
  LET chapters_read == get_bible_progress(sf).chapters_read
      expected == get_expected_chapters(sf, tdy)
      days_elapsed == get_days_elapsed(sf, tdy)
      behind == expected - chapters_read
  IN  [chapters_read |-> chapters_read,
       expected |-> expected,
       total |-> TOTAL_CHAPTERS,
       behind |-> Max(0, behind),
       ahead |-> Max(0, -behind),
       chapters_today |-> chapters_today_for(days_elapsed),
       days_elapsed |-> days_elapsed]

add_bible_chapters(sf, count) ==
  LET state == get_state(sf)
      new == [state EXCEPT !["bible_chapters_read"] =
                             state["bible_chapters_read"] + count]
  IN  [file |-> save_state(new), ret |-> new["bible_chapters_read"]]

record_reading(sf, tdy, chapters) ==
  LET added == add_bible_chapters(sf, chapters)
  IN  [file |-> added.file, ret |-> get_reading_status(added.file, tdy)]

(***************************************************************************)
(* The reading plan (data/bible_chapters.json, which is not part of the    *)
(* sources: the 66 books in order, 1189 chapters) and the position in it.  *)
(***************************************************************************)
books ==
  <<
    [name |-> "Genesis", chapters |-> 50],
    [name |-> "Exodus", chapters |-> 40],
    [name |-> "Leviticus", chapters |-> 27],
    [name |-> "Numbers", chapters |-> 36],
    [name |-> "Deuteronomy", chapters |-> 34],
    [name |-> "Joshua", chapters |-> 24],
    [name |-> "Judges", chapters |-> 21],
    [name |-> "Ruth", chapters |-> 4],
    [name |-> "1 Samuel", chapters |-> 31],
    [name |-> "2 Samuel", chapters |-> 24],
    [name |-> "1 Kings", chapters |-> 22],
    [name |-> "2 Kings", chapters |-> 25],
    [name |-> "1 Chronicles", chapters |-> 29],
    [name |-> "2 Chronicles", chapters |-> 36],
    [name |-> "Ezra", chapters |-> 10],
    [name |-> "Nehemiah", chapters |-> 13],
    [name |-> "Esther", chapters |-> 10],
    [name |-> "Job", chapters |-> 42],
    [name |-> "Psalms", chapters |-> 150],
    [name |-> "Proverbs", chapters |-> 31],
    [name |-> "Ecclesiastes", chapters |-> 12],
    [name |-> "Song of Solomon", chapters |-> 8],
    [name |-> "Isaiah", chapters |-> 66],
    [name |-> "Jeremiah", chapters |-> 52],
    [name |-> "Lamentations", chapters |-> 5],
    [name |-> "Ezekiel", chapters |-> 48],
    [name |-> "Daniel", chapters |-> 12],
    [name |-> "Hosea", chapters |-> 14],
    [name |-> "Joel", chapters |-> 3],
    [name |-> "Amos", chapters |-> 9],
    [name |-> "Obadiah", chapters |-> 1],
    [name |-> "Jonah", chapters |-> 4],
    [name |-> "Micah", chapters |-> 7],
    [name |-> "Nahum", chapters |-> 3],
    [name |-> "Habakkuk", chapters |-> 3],
    [name |-> "Zephaniah", chapters |-> 3],
    [name |-> "Haggai", chapters |-> 2],
    [name |-> "Zechariah", chapters |-> 14],
    [name |-> "Malachi", chapters |-> 4],
    [name |-> "Matthew", chapters |-> 28],
    [name |-> "Mark", chapters |-> 16],
    [name |-> "Luke", chapters |-> 24],
    [name |-> "John", chapters |-> 21],
    [name |-> "Acts", chapters |-> 28],
    [name |-> "Romans", chapters |-> 16],
    [name |-> "1 Corinthians", chapters |-> 16],
    [name |-> "2 Corinthians", chapters |-> 13],
    [name |-> "Galatians", chapters |-> 6],
    [name |-> "Ephesians", chapters |-> 6],
    [name |-> "Philippians", chapters |-> 4],
    [name |-> "Colossians", chapters |-> 4],
    [name |-> "1 Thessalonians", chapters |-> 5],
    [name |-> "2 Thessalonians", chapters |-> 3],
    [name |-> "1 Timothy", chapters |-> 6],
    [name |-> "2 Timothy", chapters |-> 4],
    [name |-> "Titus", chapters |-> 3],
    [name |-> "Philemon", chapters |-> 1],
    [name |-> "Hebrews", chapters |-> 13],
    [name |-> "James", chapters |-> 5],
    [name |-> "1 Peter", chapters |-> 5],
    [name |-> "2 Peter", chapters |-> 3],
    [name |-> "1 John", chapters |-> 5],
    [name |-> "2 John", chapters |-> 1],
    [name |-> "3 John", chapters |-> 1],
    [name |-> "Jude", chapters |-> 1],
    [name |-> "Revelation", chapters |-> 22]
  >>

\* the value of "cumulative" when the loop of get_current_position reaches
\* book i: the number of chapters (pairs of a book and a chapter of it) of
\* the books before it
CumulativeBefore ==
  [i \in 1..(Len(books) + 1) |->
     Cardinality(UNION {{<<j, c>> : c \in 1..books[j].chapters} :
                          j \in 1..(i - 1)})]

\* position_at with the test cumulative + chapters >= chapters_read
position_at_inclusive(chapters_read) ==
  LET found == {i \in 1..Len(books) :
                  CumulativeBefore[i] + books[i].chapters >= chapters_read}
  IN  IF found = {}
      THEN [book |-> "Revelation", chapter |-> 22, chapters_in_book |-> 22,
            complete |-> TRUE]
      ELSE LET i == CHOOSE i \in found : \A j \in found : i <= j
               cumulative == CumulativeBefore[i]
           IN  [book |-> books[i].name,
                chapter |-> chapters_read - cumulative + 1,
                chapters_in_book |-> books[i].chapters,
                complete |-> FALSE]

\* the position after chapters_read chapters (bible.py lines 78-98)
position_at(chapters_read) ==
  LET found == {i \in 1..Len(books) :
                  CumulativeBefore[i] + books[i].chapters > chapters_read}
  IN  IF found = {}
      THEN [book |-> "Revelation", chapter |-> 22, chapters_in_book |-> 22,
            complete |-> TRUE]
      ELSE LET i == CHOOSE i \in found : \A j \in found : i <= j
               cumulative == CumulativeBefore[i]
           IN  [book |-> books[i].name,
                chapter |-> chapters_read - cumulative + 1,
                chapters_in_book |-> books[i].chapters,
                complete |-> FALSE]

get_current_position(sf) == position_at(get_bible_progress(sf).chapters_read)

\* the index of the first book with the name, the first book when none has
BookIndex(current_book) ==
  LET named == {i \in 1..Len(books) : books[i].name = current_book}
  IN  IF named = {} THEN 1 ELSE CHOOSE i \in named : \A j \in named : i <= j

RECURSIVE readings_from_short(_, _, _)
\* readings_from with chapters_left_in_book one short
readings_from_short(book_idx, current_chapter, chapters_remaining) ==
  IF chapters_remaining > 0 /\ book_idx <= Len(books)
  THEN LET book == books[book_idx]
           chapters_left_in_book == book.chapters - current_chapter
           chapters_from_this_book ==
             Min(chapters_remaining, chapters_left_in_book)
           end_chapter == current_chapter + chapters_from_this_book - 1
           reading == IF chapters_from_this_book = 1
                      THEN <<book.name, current_chapter>>
                      ELSE <<book.name, current_chapter, end_chapter>>
       IN  <<reading>> \o
           readings_from_short(book_idx + 1, 1,
                               chapters_remaining - chapters_from_this_book)
  ELSE <<>>

RECURSIVE readings_from(_, _, _)
\* the while loop of get_todays_reading.  The string "Name c" is <<name, c>>
\* and the string "Name c-e" is <<name, c, e>>.
readings_from(book_idx, current_chapter, chapters_remaining) ==
  IF chapters_remaining > 0 /\ book_idx <= Len(books)
  THEN LET book == books[book_idx]
           chapters_left_in_book == book.chapters - current_chapter + 1
           chapters_from_this_book ==
             Min(chapters_remaining, chapters_left_in_book)
           end_chapter == current_chapter + chapters_from_this_book - 1
           reading == IF chapters_from_this_book = 1
                      THEN <<book.name, current_chapter>>
                      ELSE <<book.name, current_chapter, end_chapter>>
       IN  <<reading>> \o
           readings_from(book_idx + 1, 1,
                         chapters_remaining - chapters_from_this_book)
  ELSE <<>>

\* the readings of count chapters from a position
readings_at(position, count) ==
  IF position.complete THEN << <<"You've completed the Bible!">> >>
  ELSE readings_from(BookIndex(position.book), position.chapter, count)

get_todays_reading(sf, tdy) ==
  readings_at(get_current_position(sf),
              get_reading_status(sf, tdy).chapters_today)

(***************************************************************************)
(* State: the three files, the clock, the position of a purchase between   *)
(* its two writes, a record of the last call and what it returned, the     *)
(* reading status last shown, the ids add_shop_item has assigned, and the  *)
(* status, position and readings of the last reading panel; the goals last *)
(* saved and their day, the days on which run_if_needed started the        *)
(* routine, the processes of a concurrent run with what each loaded, and   *)
(* the step the morning routine is at.  The steps are the actions below;   *)
(* the routine's position is set by the specification that runs them.      *)
(***************************************************************************)
VARIABLES stateFile, shopFile, goalsFile, today, pc, call, status, assigned,
          panel, saved, started, procs, routine

\* what the shop, ledger and reading steps never touch
rest == <<saved, started, procs>>

vars ==
  <<stateFile, shopFile, goalsFile, today, pc, call, status, assigned, panel,
    rest, routine>>

Names == {"a"}
Costs == {-1, 0, 2}
ItemIds(max_items) == 1..(max_items + 1)
Counts == 1..MaxCount
Difficulties == {"easy", "medium", "hard"}

Idle == [at |-> "idle", items |-> <<>>, idx |-> 0]
NoCall == [op |-> "none", ret |-> "", val |-> 0, rep |-> FALSE]
NoStatus ==
  [chapters_read |-> 0, expected |-> 0, total |-> 0, behind |-> 0,
   ahead |-> 0, chapters_today |-> 0, days_elapsed |-> -1]

\* no reading panel shown yet
NoPanel == [status |-> NoStatus, position |-> NoneVal, readings |-> NoneVal]

\* no goals saved yet; no concurrent run
NoSave == <<>>
NoProcs == <<>>
NoRoutine == "none"

\* the last call: its operation, what it returned (a status as a string, an
\* amount or an id as val; val is the item id for a purchase), and rep: it
\* is a purchase of the id the call before it purchased
Called(op, ret, val) == [op |-> op, ret |-> ret, val |-> val, rep |-> FALSE]

\* what the files hold now
balance == get_coins(stateFile)
catalog == get_shop_items(shopFile)
chaptersRead == get_state(stateFile)["bible_chapters_read"]

Init ==
  /\ stateFile = NoFile
  /\ shopFile = NoFile
  /\ goalsFile = NoFile
  /\ today = 0
  /\ pc = Idle
  /\ call = NoCall
  /\ status = NoStatus
  /\ assigned = {}
  /\ panel = NoPanel
  /\ saved = NoSave
  /\ started = <<>>
  /\ procs = NoProcs
  /\ routine = NoRoutine

BoolStr(b) == IF b THEN "true" ELSE "false"

\* shop.add_item_interactive, shop.quick_add, cli.init
AddShopItem(name, cost) ==
  /\ pc.at = "idle"
  /\ LET r == add_shop_item(shopFile, name, cost)
     IN  /\ shopFile' = r.file
         /\ call' = Called("add_shop_item", "item", r.ret.id)
         /\ assigned' = assigned \cup {r.ret.id}
  /\ UNCHANGED <<rest, panel, stateFile, goalsFile, today, pc, status>>

\* shop.update_item_interactive
UpdateShopItem(item_id, name, cost) ==
  /\ pc.at = "idle"
  /\ LET r == update_shop_item(shopFile, item_id, name, cost)
     IN  /\ shopFile' = r.file
         /\ call' = Called("update_shop_item", BoolStr(r.ret), 0)
  /\ UNCHANGED <<rest, assigned, panel, stateFile, goalsFile, today, pc, status>>

\* shop.delete_item_interactive, cli.shop_delete
DeleteShopItem(item_id) ==
  /\ pc.at = "idle"
  /\ LET r == delete_shop_item(shopFile, item_id)
     IN  /\ shopFile' = r.file
         /\ call' = Called("delete_shop_item", BoolStr(r.ret), 0)
  /\ UNCHANGED <<rest, assigned, panel, stateFile, goalsFile, today, pc, status>>

\* purchase_shop_item without its look at the purchased flag
purchase_debit_again(shf, sf, item_id) ==
  LET its == get_shop_items(shf)
      i == FirstWithId(its, item_id)
  IN  IF i = 0 THEN [ret |-> "not_found", file |-> sf, at |-> Idle]
      ELSE LET s == spend_coins(sf, its[i].cost)
           IN  IF ~s.ret
               THEN [ret |-> "not_enough_coins", file |-> sf, at |-> Idle]
               ELSE [ret |-> "debited", file |-> s.file,
                     at |-> [at |-> "debited", items |-> its, idx |-> i]]

\* purchase_shop_item with the funds taken before the look at the flag
purchase_debit_funds_first(shf, sf, item_id) ==
  LET its == get_shop_items(shf)
      i == FirstWithId(its, item_id)
  IN  IF i = 0 THEN [ret |-> "not_found", file |-> sf, at |-> Idle]
      ELSE LET s == spend_coins(sf, its[i].cost)
           IN  IF ~s.ret
               THEN [ret |-> "not_enough_coins", file |-> sf, at |-> Idle]
               ELSE IF its[i].purchased
               THEN [ret |-> "already_purchased", file |-> s.file,
                     at |-> Idle]
               ELSE [ret |-> "debited", file |-> s.file,
                     at |-> [at |-> "debited", items |-> its, idx |-> i]]

\* purchase_shop_item up to and including its call of spend_coins, which
\* writes the state file; what a successful debit leaves to do is pc
purchase_debit(shf, sf, item_id) ==
  LET its == get_shop_items(shf)
      i == FirstWithId(its, item_id)
  IN  IF i = 0 THEN [ret |-> "not_found", file |-> sf, at |-> Idle]
      ELSE IF its[i].purchased
      THEN [ret |-> "already_purchased", file |-> sf, at |-> Idle]
      ELSE LET s == spend_coins(sf, its[i].cost)
           IN  IF ~s.ret
               THEN [ret |-> "not_enough_coins", file |-> sf, at |-> Idle]
               ELSE [ret |-> "debited", file |-> s.file,
                     at |-> [at |-> "debited", items |-> its, idx |-> i]]

\* purchase_shop_item's last two statements: the flag and the shop file
purchase_mark(p) == save_shop_items([p.items EXCEPT ![p.idx].purchased = TRUE])

\* cli.shop_buy, shop.purchase_item_interactive: first write
PurchaseDebit(item_id) ==
  /\ pc.at = "idle"
  /\ LET r == purchase_debit(shopFile, stateFile, item_id)
     IN  /\ stateFile' = r.file
         /\ pc' = r.at
         /\ call' = [Called("purchase_shop_item", r.ret, item_id)
                       EXCEPT !.rep = /\ call.op = "purchase_shop_item"
                                      /\ call.ret = "purchased"
                                      /\ call.val = item_id]
  /\ UNCHANGED <<rest, assigned, panel, shopFile, goalsFile, today, status>>

\* second write, and the return of (True, "Purchased ...")
PurchaseMark ==
  /\ pc.at = "debited"
  /\ shopFile' = purchase_mark(pc)
  /\ pc' = Idle
  /\ call' = [call EXCEPT !.ret = "purchased"]
  /\ UNCHANGED <<rest, assigned, panel, stateFile, goalsFile, today, status>>

\* the process is stopped (killed, interrupted) between the two writes
Stop ==
  /\ pc.at = "debited"
  /\ pc' = Idle
  /\ call' = [call EXCEPT !.ret = "stopped"]
  /\ UNCHANGED <<rest, assigned, panel, stateFile, shopFile, goalsFile, today, status>>

\* tui.step_bible's two calls of coins.award_bible_reading
AwardBibleReading(chapters, is_catchup) ==
  /\ pc.at = "idle"
  /\ LET r == award_bible_reading(stateFile, chapters, is_catchup)
     IN  /\ stateFile' = r.file
         /\ call' = Called("award_bible_reading", BoolStr(is_catchup),
                           r.ret)
  /\ UNCHANGED <<rest, assigned, panel, shopFile, goalsFile, today, pc, status>>

\* cli.bye's call of coins.award_goal_completed
AwardGoalCompleted(count) ==
  /\ pc.at = "idle"
  /\ LET r == award_goal_completed(stateFile, count)
     IN  /\ stateFile' = r.file
         /\ call' = Called("award_goal_completed", "", r.ret)
  /\ UNCHANGED <<rest, assigned, panel, shopFile, goalsFile, today, pc, status>>

\* tui.step_leetcode's call of leetcode.mark_problem_done on a problem it
\* picked among get_random_problems(difficulty, 3)
MarkProblemDone(difficulty, problem_id) ==
  /\ pc.at = "idle"
  /\ problem_id \in get_available_problems(stateFile, difficulty)
  /\ LET r == mark_problem_done(stateFile, problem_id, difficulty)
     IN  /\ stateFile' = r.file
         /\ call' = Called("mark_problem_done", difficulty, r.ret)
  /\ UNCHANGED <<rest, assigned, panel, shopFile, goalsFile, today, pc, status>>

Optional(S) == {<<>>} \cup {<<v>> : v \in S}

\* the bounds on what a step may leave: the catalog's length and the balance
Within(max_items, max_coins) ==
  /\ Len(catalog) <= max_items
  /\ balance <= max_coins

ShopStep(ids) ==
  \/ \E name \in Names, cost \in Costs : AddShopItem(name, cost)
  \/ \E item_id \in ids, name \in Optional(Names),
        cost \in Optional(Costs) : UpdateShopItem(item_id, name, cost)
  \/ \E item_id \in ids : DeleteShopItem(item_id)
  \/ \E item_id \in ids : PurchaseDebit(item_id)
  \/ PurchaseMark
  \/ Stop

\* The shop and the ledger: the catalog's operations, and reading awards as
\* the source of coins.
Next ==
  /\ \/ ShopStep(ItemIds(MaxItems))
     \/ \E chapters \in Counts, is_catchup \in BOOLEAN :
           AwardBibleReading(chapters, is_catchup)
  /\ Within(MaxItems, MaxCoins)'
  /\ UNCHANGED routine

Spec == Init /\ [][Next]_vars

\* The ledger: every operation that changes the balance, over a catalog of
\* at most MaxLedgerItems items.
LedgerNext ==
  /\ \/ ShopStep(ItemIds(MaxLedgerItems))
     \/ \E chapters \in Counts, is_catchup \in BOOLEAN :
           AwardBibleReading(chapters, is_catchup)
     \/ \E count \in Counts : AwardGoalCompleted(count)
     \/ \E difficulty \in Difficulties, problem_id \in 1..Len(ProblemCatalog) :
           MarkProblemDone(difficulty, problem_id)
  /\ Within(MaxLedgerItems, MaxLedgerCoins)'
  /\ UNCHANGED routine

SpecLedger == Init /\ [][LedgerNext]_vars

(***************************************************************************)
(* The catalog on its own: items of two names, over a balance of 0 or 3    *)
(* coins (a catch-up chapter's award).                                     *)
(***************************************************************************)
CatalogNames == {"a", "b"}
CatalogCosts == {0, 2}

CatalogInit ==
  /\ stateFile \in
       {NoFile, save_state([default_state EXCEPT !["coins"] = 3])}
  /\ shopFile = NoFile
  /\ goalsFile = NoFile
  /\ today = 0
  /\ pc = Idle
  /\ call = NoCall
  /\ status = NoStatus
  /\ assigned = {}
  /\ panel = NoPanel
  /\ saved = NoSave
  /\ started = <<>>
  /\ procs = NoProcs
  /\ routine = NoRoutine

CatalogNext ==
  /\ \/ \E name \in CatalogNames, cost \in CatalogCosts :
           AddShopItem(name, cost)
     \/ \E item_id \in ItemIds(MaxCatalogItems),
           name \in Optional(CatalogNames), cost \in Optional(CatalogCosts) :
           UpdateShopItem(item_id, name, cost)
     \/ \E item_id \in ItemIds(MaxCatalogItems) : DeleteShopItem(item_id)
     \/ \E item_id \in ItemIds(MaxCatalogItems) : PurchaseDebit(item_id)
     \/ PurchaseMark
     \/ Stop
  /\ Len(catalog') <= MaxCatalogItems
  /\ UNCHANGED routine

SpecCatalog == CatalogInit /\ [][CatalogNext]_vars

(***************************************************************************)
(* Loading: a state document that holds any subset of the five keys (one  *)
(* written before a key existed), and operations that load and save it.    *)
(***************************************************************************)
PersistedState ==
  [last_run_date |-> <<2026, 1, 1>>,
   coins |-> 7,
   completed_leetcode_ids |-> <<1>>,
   bible_chapters_read |-> 3,
   start_date |-> <<2026, 2, 1>>]

LoadInit ==
  /\ stateFile \in
       {NoFile} \cup
       {_save_json([k \in keys |-> PersistedState[k]]) :
          keys \in SUBSET StateKeys}
  /\ shopFile = NoFile
  /\ goalsFile = NoFile
  /\ today = 0
  /\ pc = Idle
  /\ call = NoCall
  /\ status = NoStatus
  /\ assigned = {}
  /\ panel = NoPanel
  /\ saved = NoSave
  /\ started = <<>>
  /\ procs = NoProcs
  /\ routine = NoRoutine

LoadNext ==
  /\ \/ \E count \in Counts : AwardGoalCompleted(count)
     \/ \E chapters \in Counts, is_catchup \in BOOLEAN :
           AwardBibleReading(chapters, is_catchup)
  /\ balance' <= MaxLoadCoins
  /\ UNCHANGED routine

SpecLoad == LoadInit /\ [][LoadNext]_vars

(***************************************************************************)
(* The practice rewards called with any difficulty string, also one that   *)
(* is no tier.                                                             *)
(***************************************************************************)
Tiers == Difficulties \cup {"Hard", "expert", ""}

AwardLeetcode(difficulty) ==
  /\ pc.at = "idle"
  /\ LET r == award_leetcode(stateFile, difficulty)
     IN  /\ stateFile' = r.file
         /\ call' = Called("award_leetcode", difficulty, r.ret)
  /\ UNCHANGED <<rest, assigned, panel, shopFile, goalsFile, today, pc, status>>

MarkProblemDoneAs(difficulty, problem_id) ==
  /\ pc.at = "idle"
  /\ LET r == mark_problem_done(stateFile, problem_id, difficulty)
     IN  /\ stateFile' = r.file
         /\ call' = Called("mark_problem_done", difficulty, r.ret)
  /\ UNCHANGED <<rest, assigned, panel, shopFile, goalsFile, today, pc, status>>

RewardsNext ==
  /\ \/ \E difficulty \in Tiers : AwardLeetcode(difficulty)
     \/ \E difficulty \in Tiers, problem_id \in 1..Len(ProblemCatalog) :
           MarkProblemDoneAs(difficulty, problem_id)
  /\ balance' <= MaxRewardCoins
  /\ UNCHANGED routine

SpecRewards == Init /\ [][RewardsNext]_vars

(***************************************************************************)
(* The pacer as a function of the date: the clock runs from the day before *)
(* the start date to MaxDay, over state files that hold counters a reader  *)
(* can have reached, and "resolution status" shows the reading status.     *)
(***************************************************************************)
InitChapters == {3, 600, 1189}

PacingInit ==
  /\ stateFile \in
       {NoFile} \cup
       {save_state([default_state EXCEPT !["bible_chapters_read"] = c]) :
          c \in InitChapters}
  /\ shopFile = NoFile
  /\ goalsFile = NoFile
  /\ today = -1
  /\ pc = Idle
  /\ call = NoCall
  /\ status = NoStatus
  /\ assigned = {}
  /\ panel = NoPanel
  /\ saved = NoSave
  /\ started = <<>>
  /\ procs = NoProcs
  /\ routine = NoRoutine

\* midnight passes
Tick(last) ==
  /\ today < last
  /\ today' = today + 1
  /\ status' = NoStatus
  /\ UNCHANGED <<rest, assigned, panel, stateFile, shopFile, goalsFile, pc, call>>

\* cli.status's call of bible.get_reading_status
ShowStatus ==
  /\ status' = get_reading_status(stateFile, today)
  /\ UNCHANGED <<rest, assigned, panel, stateFile, shopFile, goalsFile, today, pc, call>>

PacingNext ==
  /\ \/ Tick(MaxDay)
     \/ ShowStatus
  /\ UNCHANGED routine

SpecPacing == PacingInit /\ [][PacingNext]_vars

(***************************************************************************)
(* The morning routine's reading step.  The reader answers did_read to     *)
(* "Did you read today's chapters?" and, when asked, enters extra catch-up *)
(* chapters (0: declines, or enters a count that is not positive).         *)
(***************************************************************************)
\* tui.step_bible, lines 129-137: the day's chapters are recorded and awarded
step_bible_read(sf, tdy, st, did_read) ==
  IF did_read
  THEN award_bible_reading(record_reading(sf, tdy, st.chapters_today).file,
                           st.chapters_today, FALSE)
  ELSE [file |-> sf, ret |-> 0]

\* tui.step_bible, lines 140-151: catch-up chapters, asked for only when the
\* status computed at the top of the step says the reader is behind.
step_bible_catchup(sf, tdy, st, extra) ==
  IF st.behind > 0 /\ extra > 0
  THEN award_bible_reading(record_reading(sf, tdy, extra).file, extra, TRUE)
  ELSE [file |-> sf, ret |-> 0]

StepBible(did_read, extra) ==
  /\ pc.at = "idle"
  /\ \E st \in {get_reading_status(stateFile, today)} :
     \E read \in {step_bible_read(stateFile, today, st, did_read)} :
     \E more \in {step_bible_catchup(read.file, today, st, extra)} :
        /\ stateFile' = more.file
        /\ call' = Called("step_bible", BoolStr(did_read), read.ret + more.ret)
        /\ panel' = [status |-> st,
                     position |-> get_current_position(stateFile),
                     readings |-> get_todays_reading(stateFile, today)]
  /\ UNCHANGED <<rest, assigned, shopFile, goalsFile, today, pc, status>>

ReadingNext ==
  /\ \/ Tick(MaxReadDay)
     \/ \E did_read \in BOOLEAN, extra \in 0..MaxExtra :
           StepBible(did_read, extra)
  /\ chaptersRead' <= MaxChapters
  /\ UNCHANGED routine

SpecReading == Init /\ [][ReadingNext]_vars

(***************************************************************************)
(* The steady reader: from the start date on, every morning the reading    *)
(* step is answered yes once, no catch-up chapters are entered, and the    *)
(* day ends.                                                               *)
(***************************************************************************)
\* the last reading panel was shown today
ReadToday == panel.status.days_elapsed = get_days_elapsed(stateFile, today)

SteadyRead ==
  /\ ~ReadToday
  /\ StepBible(TRUE, 0)

SteadyNight ==
  /\ ReadToday
  /\ Tick(MaxSteadyDay)

SteadyNext ==
  /\ \/ SteadyRead
     \/ SteadyNight
  /\ UNCHANGED routine

SpecSteady == Init /\ [][SteadyNext]_vars

(***************************************************************************)
(* The goals step and the commands that show the goals.                    *)
(***************************************************************************)
GoalLists == {<<>>, <<"g">>, <<"g", "h">>}

\* step_goals that pays the goals as they are entered: it writes the state
\* document too
StepGoalsPaying(goals) ==
  /\ pc.at = "idle"
  /\ goalsFile' = save_todays_goals(goals, today)
  /\ saved' = <<[day |-> today, goals |-> goals]>>
  /\ stateFile' = award_goal_completed(stateFile, Len(goals)).file
  /\ call' = Called("step_goals", "", Len(goals))
  /\ UNCHANGED <<started, procs, assigned, panel, shopFile, today, pc, status>>

\* tui.step_goals: the goals entered are saved unless none was entered
StepGoals(goals) ==
  /\ pc.at = "idle"
  /\ IF goals # <<>>
     THEN /\ goalsFile' = save_todays_goals(goals, today)
          /\ saved' = <<[day |-> today, goals |-> goals]>>
     ELSE UNCHANGED <<goalsFile, saved>>
  /\ call' = Called("step_goals", "", Len(goals))
  /\ UNCHANGED <<started, procs, assigned, panel, stateFile, shopFile, today,
                 pc, status>>

\* cli.status, cli.bye, tui.show_rewards_summary: get_todays_goals
ShowGoals ==
  /\ pc.at = "idle"
  /\ call' = [op |-> "get_todays_goals", ret |-> "", rep |-> FALSE,
               val |-> Len(get_todays_goals(goalsFile, today)),
               day |-> today]
  /\ UNCHANGED <<rest, assigned, panel, stateFile, shopFile, goalsFile, today,
                 pc, status>>

\* a day of setting goals, looking at them and checking them off, and the
\* days after it
GoalsNext ==
  /\ \/ \E goals \in GoalLists : StepGoals(goals)
     \/ ShowGoals
     \/ \E count \in Counts : AwardGoalCompleted(count)
     \/ Tick(MaxGoalDay)
  /\ balance' <= MaxGoalCoins
  /\ UNCHANGED routine

SpecGoals == Init /\ [][GoalsNext]_vars

(***************************************************************************)
(* The morning routine: run_if_needed's gate, run_morning_routine's mark   *)
(* and its steps in their order, each step an action of its own since the  *)
(* routine waits for the user between them; Ctrl-C ends it at any step and *)
(* midnight can pass at any step.                                          *)
(***************************************************************************)
Hours == {5, 6}

\* the gate's answer and the first statement of the routine it starts
run_if_needed(sf, tdy, hour) ==
  IF hour < 6 THEN [ran |-> FALSE, file |-> sf]
  ELSE IF ran_today(sf, tdy) THEN [ran |-> FALSE, file |-> sf]
  ELSE [ran |-> TRUE, file |-> mark_ran_today(sf, tdy)]

RunIfNeeded(hour) ==
  /\ routine = NoRoutine
  /\ pc.at = "idle"
  /\ LET r == run_if_needed(stateFile, today, hour)
     IN  /\ stateFile' = r.file
         /\ started' = IF r.ran THEN Append(started, today) ELSE started
         /\ routine' = IF r.ran THEN "goals" ELSE NoRoutine
         /\ call' = Called("run_if_needed", BoolStr(r.ran), hour)
  /\ UNCHANGED <<saved, procs, assigned, panel, shopFile, goalsFile, today,
                 pc, status>>

\* run_morning_routine that goes to its first step without marking the day
RunMorningRoutineUnmarked ==
  /\ routine = NoRoutine
  /\ pc.at = "idle"
  /\ routine' = "goals"
  /\ call' = Called("run_morning_routine", "", 0)
  /\ UNCHANGED <<rest, assigned, panel, stateFile, shopFile, goalsFile, today,
                 pc, status>>

\* cli.cli without a subcommand: the routine runs whatever the gate says
RunMorningRoutine ==
  /\ routine = NoRoutine
  /\ pc.at = "idle"
  /\ stateFile' = mark_ran_today(stateFile, today)
  /\ routine' = "goals"
  /\ call' = Called("run_morning_routine", "", 0)
  /\ UNCHANGED <<rest, assigned, panel, shopFile, goalsFile, today, pc,
                 status>>

\* tui.step_leetcode when get_random_problems returns no problem
NoProblemLeft(difficulty) ==
  /\ pc.at = "idle"
  /\ get_available_problems(stateFile, difficulty) = {}
  /\ call' = Called("step_leetcode", difficulty, 0)
  /\ UNCHANGED <<rest, assigned, panel, stateFile, shopFile, goalsFile, today,
                 pc, status>>

RoutineGoals(goals) ==
  /\ routine = "goals"
  /\ StepGoals(goals)
  /\ routine' = "bible"

RoutineBible(did_read, extra) ==
  /\ routine = "bible"
  /\ StepBible(did_read, extra)
  /\ routine' = "leetcode"

RoutineLeetcode(difficulty) ==
  /\ routine = "leetcode"
  /\ \/ \E problem_id \in 1..Len(ProblemCatalog) :
           MarkProblemDone(difficulty, problem_id)
     \/ NoProblemLeft(difficulty)
  /\ routine' = "summary"

\* tui.show_rewards_summary with nothing affordable in the shop (the catalog
\* of this specification is empty): the goals are shown, the routine returns
RoutineEnds ==
  /\ routine = "summary"
  /\ ShowGoals
  /\ routine' = NoRoutine

\* KeyboardInterrupt: sys.exit(0) at whatever step the routine waits
Interrupt ==
  /\ routine # NoRoutine
  /\ routine' = NoRoutine
  /\ pc' = Idle
  /\ call' = Called("run_morning_routine", "interrupted", 0)
  /\ UNCHANGED <<rest, assigned, panel, stateFile, shopFile, goalsFile, today,
                 status>>

GateNext ==
  /\ \/ \E hour \in Hours : RunIfNeeded(hour)
     \/ RunMorningRoutine
     \/ \E goals \in {<<>>, <<"g">>} : RoutineGoals(goals)
     \/ \E did_read \in BOOLEAN, extra \in 0..1 : RoutineBible(did_read, extra)
     \/ \E difficulty \in Difficulties : RoutineLeetcode(difficulty)
     \/ RoutineEnds
     \/ Interrupt
     \/ Tick(MaxGateDay) /\ UNCHANGED routine
  /\ balance' <= MaxGateCoins

SpecGate == Init /\ [][GateNext]_vars

(***************************************************************************)
(* The three documents together: the shop commands, the evening award and  *)
(* the morning routine's steps, on one day.                                *)
(***************************************************************************)
FrameNext ==
  /\ \/ /\ \/ \E cost \in CatalogCosts : AddShopItem("a", cost)
           \/ \E item_id \in ItemIds(MaxFrameItems),
                 cost \in Optional(CatalogCosts) :
                 UpdateShopItem(item_id, <<>>, cost)
           \/ \E item_id \in ItemIds(MaxFrameItems) :
                 DeleteShopItem(item_id)
           \/ \E item_id \in ItemIds(MaxFrameItems) :
                 PurchaseDebit(item_id)
           \/ PurchaseMark
        /\ UNCHANGED routine
     \/ RunMorningRoutine
     \/ \E goals \in {<<>>, <<"g">>} : RoutineGoals(goals)
     \/ \E did_read \in BOOLEAN : RoutineBible(did_read, 0)
     \/ \E difficulty \in Difficulties : RoutineLeetcode(difficulty)
     \/ RoutineEnds
  /\ Within(MaxFrameItems, MaxFrameCoins)'
  /\ chaptersRead' <= MaxFrameChapters

SpecFrame == Init /\ [][FrameNext]_vars

(***************************************************************************)
(* Two processes.  Each runs one operation; an operation is its loads and  *)
(* saves in the order of the code, each load and each save one step, and   *)
(* between two steps of one process the other may take any of its own.     *)
(* No file is locked.  A process keeps what it loaded in its own memory.   *)
(***************************************************************************)
Procs == {1, 2}

RaceAmounts == {1, 2}

\* the documents the two processes start from: a balance that pays for both
\* items, and two items nobody bought
RaceState == save_state([default_state EXCEPT !["coins"] = 5])

RaceShop ==
  save_shop_items(
    <<[id |-> 1, name |-> "a", cost |-> 2, purchased |-> FALSE],
      [id |-> 2, name |-> "b", cost |-> 3, purchased |-> FALSE]>>)

\* the operations a process may have been started with
RaceOps ==
  {[op |-> "add_coins", arg |-> amount] : amount \in RaceAmounts} \cup
  {[op |-> "purchase_shop_item", arg |-> item_id] : item_id \in {1, 2}}

\* a process before its first step
Started(o) ==
  [op |-> o.op, arg |-> o.arg, at |-> "start", ret |-> "",
   state |-> <<>>, items |-> <<>>, idx |-> 0]

RaceInit ==
  /\ stateFile = RaceState
  /\ shopFile = RaceShop
  /\ goalsFile = NoFile
  /\ today = 0
  /\ pc = Idle
  /\ call = NoCall
  /\ status = NoStatus
  /\ assigned = {}
  /\ panel = NoPanel
  /\ saved = NoSave
  /\ started = <<>>
  /\ procs \in [Procs -> {Started(o) : o \in RaceOps}]
  /\ routine = NoRoutine

\* what a step of a process leaves alone beside the two files
RaceFrame ==
  UNCHANGED <<saved, started, assigned, panel, goalsFile, today, pc, call,
              status, routine>>

\* add_coins, line 84: state = get_state()
AddCoinsLoad(p) ==
  /\ procs[p].op = "add_coins"
  /\ procs[p].at = "start"
  /\ procs' = [procs EXCEPT ![p].state = get_state(stateFile),
                            ![p].at = "loaded"]
  /\ UNCHANGED <<stateFile, shopFile>>
  /\ RaceFrame

\* add_coins, lines 85-87: the sum is saved and returned
AddCoinsSave(p) ==
  /\ procs[p].op = "add_coins"
  /\ procs[p].at = "loaded"
  /\ LET state == procs[p].state
         new == [state EXCEPT !["coins"] = state["coins"] + procs[p].arg]
     IN  /\ stateFile' = save_state(new)
         /\ procs' = [procs EXCEPT ![p].state = new,
                                   ![p].at = "done",
                                   ![p].ret = "saved"]
  /\ UNCHANGED shopFile
  /\ RaceFrame

\* purchase_shop_item, lines 166-170: the catalog is loaded, the item found
\* and its flag tested
PurchaseLoadShop(p) ==
  /\ procs[p].op = "purchase_shop_item"
  /\ procs[p].at = "start"
  /\ LET its == get_shop_items(shopFile)
         i == FirstWithId(its, procs[p].arg)
     IN  procs' =
           [procs EXCEPT
              ![p].items = its,
              ![p].idx = i,
              ![p].at = IF i = 0 \/ its[i].purchased THEN "done" ELSE "found",
              ![p].ret = IF i = 0 THEN "not_found"
                         ELSE IF its[i].purchased THEN "already_purchased"
                         ELSE ""]
  /\ UNCHANGED <<stateFile, shopFile>>
  /\ RaceFrame

\* spend_coins, lines 92-95: the state is loaded and the balance tested
PurchaseLoadState(p) ==
  /\ procs[p].op = "purchase_shop_item"
  /\ procs[p].at = "found"
  /\ LET state == get_state(stateFile)
         short == state["coins"] < procs[p].items[procs[p].idx].cost
     IN  procs' =
           [procs EXCEPT
              ![p].state = state,
              ![p].at = IF short THEN "done" ELSE "checked",
              ![p].ret = IF short THEN "not_enough_coins" ELSE ""]
  /\ UNCHANGED <<stateFile, shopFile>>
  /\ RaceFrame

\* spend_coins, lines 96-98: the debit is saved
PurchaseSaveState(p) ==
  /\ procs[p].op = "purchase_shop_item"
  /\ procs[p].at = "checked"
  /\ LET state == procs[p].state
         cost == procs[p].items[procs[p].idx].cost
     IN  stateFile' =
           save_state([state EXCEPT !["coins"] = state["coins"] - cost])
  /\ procs' = [procs EXCEPT ![p].at = "debited"]
  /\ UNCHANGED shopFile
  /\ RaceFrame

\* the last step of a purchase that sets the flag in the catalog on file
\* instead of the catalog the process loaded
PurchaseSaveShopFresh(p) ==
  /\ procs[p].op = "purchase_shop_item"
  /\ procs[p].at = "debited"
  /\ shopFile' = save_shop_items(
                   [get_shop_items(shopFile)
                      EXCEPT ![procs[p].idx].purchased = TRUE])
  /\ procs' = [procs EXCEPT ![p].at = "done", ![p].ret = "purchased"]
  /\ UNCHANGED stateFile
  /\ RaceFrame

\* purchase_shop_item, lines 173-175: the flag is set in the catalog this
\* process loaded, and that catalog is saved
PurchaseSaveShop(p) ==
  /\ procs[p].op = "purchase_shop_item"
  /\ procs[p].at = "debited"
  /\ shopFile' = save_shop_items(
                   [procs[p].items EXCEPT ![procs[p].idx].purchased = TRUE])
  /\ procs' = [procs EXCEPT ![p].at = "done", ![p].ret = "purchased"]
  /\ UNCHANGED stateFile
  /\ RaceFrame

RaceNext ==
  \E p \in Procs :
     \/ AddCoinsLoad(p)
     \/ AddCoinsSave(p)
     \/ PurchaseLoadShop(p)
     \/ PurchaseLoadState(p)
     \/ PurchaseSaveState(p)
     \/ PurchaseSaveShop(p)

SpecRace == RaceInit /\ [][RaceNext]_vars

(***************************************************************************)
(* The state document's fields: every operation that writes state.json,    *)
(* run on documents that hold any subset of the five keys.                 *)
(***************************************************************************)
FieldsNext ==
  /\ \/ /\ \/ \E count \in Counts : AwardGoalCompleted(count)
           \/ \E did_read \in BOOLEAN : StepBible(did_read, 0)
           \/ \E difficulty \in Difficulties,
                 problem_id \in 1..Len(ProblemCatalog) :
                 MarkProblemDone(difficulty, problem_id)
        /\ UNCHANGED routine
     \/ RunMorningRoutine
     \/ Interrupt
  /\ balance' <= MaxFieldCoins
  /\ chaptersRead' <= MaxFieldChapters

SpecFields == LoadInit /\ [][FieldsNext]_vars

(***************************************************************************)
(* Practice over several mornings: routines whose reading step reads        *)
(* nothing, so that every coin of the balance comes from step_leetcode.    *)
(***************************************************************************)
PracticeNext ==
  /\ \/ RunMorningRoutine
     \/ \E goals \in {<<>>, <<"g">>} : RoutineGoals(goals)
     \/ RoutineBible(FALSE, 0)
     \/ \E difficulty \in Difficulties : RoutineLeetcode(difficulty)
     \/ RoutineEnds
     \/ Interrupt
     \/ Tick(MaxPracticeDay) /\ UNCHANGED routine
  /\ balance' <= MaxPracticeCoins

SpecPractice == Init /\ [][PracticeNext]_vars

(***************************************************************************)
(* Damaged documents: a file that exists and holds no JSON document (an    *)
(* empty or cut-off file).  json.load raises JSONDecodeError on it, no     *)
(* caller catches it, and the command ends with nothing written.           *)
(***************************************************************************)
Truncated == [exists |-> TRUE, text |-> ""]

json_load_raises(file) == file.exists /\ "data" \notin DOMAIN file

Raises(op, file) ==
  /\ pc.at = "idle"
  /\ json_load_raises(file)
  /\ call' = Called(op, "JSONDecodeError", 0)
  /\ UNCHANGED <<rest, assigned, panel, stateFile, shopFile, goalsFile, today,
                 pc, status>>

DamagedInit ==
  /\ stateFile \in {NoFile, Truncated}
  /\ shopFile \in {NoFile, Truncated}
  /\ goalsFile \in {NoFile, Truncated}
  /\ today = 0
  /\ pc = Idle
  /\ call = NoCall
  /\ status = NoStatus
  /\ assigned = {}
  /\ panel = NoPanel
  /\ saved = NoSave
  /\ started = <<>>
  /\ procs = NoProcs
  /\ routine = NoRoutine

DamagedNext ==
  /\ \/ \E count \in Counts :
           ~json_load_raises(stateFile) /\ AwardGoalCompleted(count)
     \/ Raises("award_goal_completed", stateFile)
     \/ \E name \in Names, cost \in Costs :
           ~json_load_raises(shopFile) /\ AddShopItem(name, cost)
     \/ Raises("add_shop_item", shopFile)
     \/ ~json_load_raises(goalsFile) /\ ShowGoals
     \/ Raises("get_todays_goals", goalsFile)
     \/ \E goals \in GoalLists : StepGoals(goals)
  /\ IF json_load_raises(stateFile') THEN TRUE
     ELSE balance' <= MaxDamagedCoins
  /\ IF json_load_raises(shopFile') THEN TRUE
     ELSE Len(catalog') <= MaxDamagedItems
  /\ UNCHANGED routine

SpecDamaged == DamagedInit /\ [][DamagedNext]_vars

(***************************************************************************)
(* The properties.                                                         *)
(***************************************************************************)
\* the item a purchase of item_id handles: the first with that id
ItemOf(item_id) == catalog[FirstWithId(catalog, item_id)]

\* the last call is a purchase_shop_item that found its item unpurchased
PurchaseTried ==
  /\ call.op = "purchase_shop_item"
  /\ call.ret \in {"not_enough_coins", "debited", "stopped", "purchased"}

\* C1: in every persisted state during or after purchase_shop_item(id), also
\* between its two writes and after a stop there, the balance has been
\* debited by the cost of the item (here: a positive cost) if and only if
\* the item is marked purchased.
PurchaseAtomic ==
  (PurchaseTried /\ ItemOf(call.val).cost > 0) =>
     ((call.ret # "not_enough_coins") <=> ItemOf(call.val).purchased)

\* C2: after any sequence of awards, purchases and catalog changes the
\* persisted balance is an integer >= 0.
BalanceNonNegative == balance \in Nat

\* a purchase of an item of positive cost has spent the whole balance
BalanceSpentToZero ==
  /\ call.op = "purchase_shop_item"
  /\ call.ret = "purchased"
  /\ ItemOf(call.val).cost > 0
  /\ balance = 0

\* spend_coins(amount) on the state file as it is: refused without a write
\* when amount > balance, else the balance goes down by exactly amount
SpendsOrRefuses(amount) ==
  LET s == spend_coins(stateFile, amount)
  IN  IF amount > balance
      THEN ~s.ret /\ s.file = stateFile
      ELSE s.ret /\ get_coins(s.file) = balance - amount

\* C3: for every balance b and amount a >= 0, spend_coins(a) returns False
\* and leaves the persisted state unchanged when a > b, and otherwise
\* returns True and leaves the balance b - a; so does the spend_coins call
\* of every purchase that reaches it.
WithdrawGuard ==
  /\ [](\A amount \in 0..(MaxCoins + 1) : SpendsOrRefuses(amount))
  /\ [][\A item_id \in ItemIds(MaxItems) :
          (/\ call'.val = item_id
           /\ FirstWithId(catalog, item_id) # 0
           /\ ~ItemOf(item_id).purchased
           /\ ItemOf(item_id).cost >= 0
           /\ PurchaseDebit(item_id))
          => IF ItemOf(item_id).cost > balance
             THEN call'.ret = "not_enough_coins" /\ stateFile' = stateFile
             ELSE /\ call'.ret = "debited"
                  /\ balance' = balance - ItemOf(item_id).cost]_vars

\* a purchase was refused for an amount above a positive balance
WithdrawRefused ==
  /\ call.op = "purchase_shop_item"
  /\ call.ret = "not_enough_coins"
  /\ balance > 0
  /\ ItemOf(call.val).cost > balance

\* C4: a purchase that succeeds debits the balance by the item's cost, once,
\* and marks the item; a purchase of the same id right after it fails with
\* the already-purchased result and changes neither file.
PurchaseTwice ==
  [][/\ \A item_id \in ItemIds(MaxItems) :
          /\ (/\ call'.val = item_id
              /\ call'.ret = "debited"
              /\ PurchaseDebit(item_id))
             => balance' = balance - ItemOf(item_id).cost
          /\ (/\ call.op = "purchase_shop_item"
              /\ call.ret = "purchased"
              /\ call.val = item_id
              /\ PurchaseDebit(item_id))
             => /\ call'.ret = "already_purchased"
                /\ stateFile' = stateFile
                /\ shopFile' = shopFile
     /\ PurchaseMark
        => /\ call'.ret = "purchased"
           /\ balance' = balance
           /\ ItemOf(call.val)'.purchased]_vars

\* the second of two purchases in a row of an item of positive cost
PurchasedTwice ==
  /\ call.op = "purchase_shop_item"
  /\ call.rep
  /\ call.ret = "already_purchased"
  /\ ItemOf(call.val).cost > 0

\* C5: no two items of the persisted catalog have the same id.
IdsUnique ==
  \A i, j \in 1..Len(catalog) : i # j => catalog[i].id # catalog[j].id

\* C6: add_shop_item assigns id = (number of items in the catalog) + 1 with
\* purchased = false, and the id it assigns was never assigned before and
\* is greater than every id assigned before.
IdsNeverReused ==
  [][\A name \in Names, cost \in Costs :
        AddShopItem(name, cost)
        => /\ call'.val = Len(catalog) + 1
           /\ ~catalog'[Len(catalog')].purchased
           /\ call'.val \notin assigned
           /\ \A earlier \in assigned : earlier < call'.val]_vars

\* C7: the persisted chapters-read counter is within 0..TOTAL_CHAPTERS after
\* any sequence of morning routines.
ChaptersReadBounded == chaptersRead >= 0 /\ chaptersRead <= TOTAL_CHAPTERS

\* floor(days * TOTAL_CHAPTERS / DAYS_IN_YEAR), in integers
FloorOfPace(days) == (days * TOTAL_CHAPTERS) \div DAYS_IN_YEAR

\* the reading status has been shown today
StatusShown == status.days_elapsed >= 0

\* C8: for days_elapsed d >= 1 the chapters_today of get_reading_status is
\* floor(d*1189/365) - floor((d-1)*1189/365) clamped into [3,4].
ChaptersTodayIsFloorDifference ==
  status.days_elapsed >= 1 =>
     status.chapters_today =
        Max(3, Min(4, FloorOfPace(status.days_elapsed)
                        - FloorOfPace(status.days_elapsed - 1)))

\* C9: for days_elapsed >= 1 the chapters_today of get_reading_status is 3
\* or 4.
ChaptersTodayThreeOrFour ==
  status.days_elapsed >= 1 => status.chapters_today \in {3, 4}

\* the status of a day on which the cumulative floor jumps by 4
StatusOnJumpDay ==
  /\ status.days_elapsed >= 1
  /\ FloorOfPace(status.days_elapsed) - FloorOfPace(status.days_elapsed - 1) = 4
  /\ status.chapters_today \in {3, 4}

\* C10: expected chapters are min(floor(days_elapsed * 1189/365), 1189),
\* never above 1189, and never decrease as today advances with the start
\* date fixed.
ExpectedChapters ==
  /\ [](StatusShown =>
          /\ status.expected =
                Min(FloorOfPace(status.days_elapsed), TOTAL_CHAPTERS)
          /\ status.expected <= TOTAL_CHAPTERS)
  /\ [][(/\ today' >= today
         /\ get_state(stateFile')["start_date"] = get_state(stateFile)["start_date"])
        => get_expected_chapters(stateFile', today')
             >= get_expected_chapters(stateFile, today)]_vars

\* the status of a day after the plan's last: the expectation is capped
ExpectedCapped ==
  /\ status.days_elapsed > DAYS_IN_YEAR
  /\ FloorOfPace(status.days_elapsed) > TOTAL_CHAPTERS
  /\ status.expected = TOTAL_CHAPTERS

\* C11: get_reading_status returns behind = max(0, expected - chaptersRead)
\* and ahead = max(0, chaptersRead - expected) for the persisted counter and
\* the date, and never both nonzero.
BehindAheadExclusive ==
  StatusShown =>
     /\ status.chapters_read = chaptersRead
     /\ status.expected = get_expected_chapters(stateFile, today)
     /\ status.behind = Max(0, status.expected - status.chapters_read)
     /\ status.ahead = Max(0, status.chapters_read - status.expected)
     /\ ~(status.behind # 0 /\ status.ahead # 0)

\* a status of a reader who is ahead of the plan, after the start date
StatusAhead ==
  /\ status.days_elapsed > 1
  /\ status.ahead > 0
  /\ status.behind = 0

\* step_bible has shown its panel
PanelShown == panel # NoPanel

\* C12: for chaptersRead in 0..1188 the position shown is the book whose
\* window (chapters of earlier books, that plus its own chapters] contains
\* chaptersRead + 1, at chapter chaptersRead + 1 minus the chapters of the
\* earlier books, within 1..chapters_in_book; at 1189 it is the terminal
\* complete position at the plan's last book and chapter; at 0 it is
\* Genesis 1.
PositionInPlan ==
  PanelShown =>
     LET n == panel.status.chapters_read
         p == panel.position
         last == books[Len(books)]
     IN  /\ n \in 0..(TOTAL_CHAPTERS - 1) =>
               /\ ~p.complete
               /\ \E k \in 1..Len(books) :
                     /\ books[k].name = p.book
                     /\ books[k].chapters = p.chapters_in_book
                     /\ CumulativeBefore[k] < n + 1
                     /\ n + 1 <= CumulativeBefore[k] + books[k].chapters
                     /\ p.chapter = n + 1 - CumulativeBefore[k]
               /\ 1 <= p.chapter
               /\ p.chapter <= p.chapters_in_book
         /\ n = TOTAL_CHAPTERS =>
               /\ p.complete
               /\ p.book = last.name
               /\ p.chapter = last.chapters
               /\ p.chapters_in_book = last.chapters
         /\ n = 0 => p.book = "Genesis" /\ p.chapter = 1

\* the panel of a reader who has just finished the first book
PositionAtNextBook ==
  /\ PanelShown
  /\ panel.status.chapters_read = books[1].chapters
  /\ panel.position.book = books[2].name
  /\ panel.position.chapter = 1

\* a reading <<name, c>> or <<name, c, e>>: its first and last chapter
RangeStart(r) == r[2]
RangeEnd(r) == r[Len(r)]

RECURSIVE Covered(_)
\* the number of chapters a list of readings covers
Covered(rs) ==
  IF rs = <<>> THEN 0
  ELSE (RangeEnd(rs[1]) - RangeStart(rs[1]) + 1) + Covered(Tail(rs))

\* rs allocates count chapters from position, chapters_read chapters into
\* the plan: in plan order, one range per book touched, from the position
\* and then from chapter 1 of each next book, within each book, and
\* min(count, chapters left in the plan) chapters in all
Allocated(position, chapters_read, count, rs) ==
  /\ Len(rs) >= 1
  /\ rs[1][1] = position.book
  /\ RangeStart(rs[1]) = position.chapter
  /\ \A i \in 1..Len(rs) :
        /\ Len(rs[i]) \in {2, 3}
        /\ \E k \in 1..Len(books) : books[k].name = rs[i][1]
        /\ 1 <= RangeStart(rs[i])
        /\ RangeStart(rs[i]) <= RangeEnd(rs[i])
        /\ RangeEnd(rs[i]) <= books[BookIndex(rs[i][1])].chapters
        /\ (Len(rs[i]) = 2) <=> (RangeStart(rs[i]) = RangeEnd(rs[i]))
  /\ \A i \in 2..Len(rs) :
        /\ BookIndex(rs[i][1]) = BookIndex(rs[i - 1][1]) + 1
        /\ RangeStart(rs[i]) = 1
        /\ RangeEnd(rs[i - 1]) = books[BookIndex(rs[i - 1][1])].chapters
  /\ Covered(rs) = Min(count, CumulativeBefore[Len(books) + 1] - chapters_read)

\* C13: the readings from a position (b, c) for a count n >= 1 are ranges in
\* plan order, one per book touched, the first from (b, c) and each later
\* one from chapter 1 of the next book, each within its book, a single
\* chapter written as one chapter, covering min(n, chapters left in the
\* plan) chapters; from Genesis 49 with n = 3: Genesis 49-50, Exodus 1.
ReadingAllocation ==
  (PanelShown /\ ~panel.position.complete) =>
     /\ Allocated(panel.position, panel.status.chapters_read,
                  panel.status.chapters_today, panel.readings)
     /\ \A n \in 1..MaxAlloc :
           Allocated(panel.position, panel.status.chapters_read, n,
                     readings_at(panel.position, n))
     /\ (panel.status.chapters_read = 48 /\ panel.status.chapters_today = 3)
          => panel.readings = << <<"Genesis", 49, 50>>, <<"Exodus", 1>> >>

\* the panel of a reader two chapters before the end of the first book
ReadingSpills ==
  /\ PanelShown
  /\ panel.position.book = books[1].name
  /\ panel.position.chapter = books[1].chapters - 1
  /\ Len(panel.readings) = 2

\* C14: days_elapsed is 0 when today is before the start date and otherwise
\* (today - start date in days) + 1; on the start date 2026-01-01 itself
\* days_elapsed = 1, expected = 3 and chapters_today = 3.
DaysElapsedFromStart ==
  StatusShown =>
     LET start_date == get_bible_progress(stateFile).start_date
         start == strptime(start_date)
     IN  /\ today < start => status.days_elapsed = 0
         /\ today >= start => status.days_elapsed = (today - start) + 1
         /\ (start_date = <<2026, 1, 1>> /\ date_str(today) = <<2026, 1, 1>>)
              => /\ status.days_elapsed = 1
                 /\ status.expected = 3
                 /\ status.chapters_today = 3

\* the status shown on the start date
StatusOnStartDate ==
  /\ StatusShown
  /\ date_str(today) = get_bible_progress(stateFile).start_date
  /\ status.days_elapsed = 1

\* C15: purchase_shop_item(id) fails as not-found when no item has the id,
\* as already-purchased when the item's flag is set (whatever the funds),
\* as insufficient-funds when the cost is above the balance, and a failed
\* purchase leaves the state document and the shop document as they were.
FailedPurchaseChangesNothing ==
  [][\A item_id \in ItemIds(MaxItems) :
        (call'.val = item_id /\ PurchaseDebit(item_id)) =>
           LET i == FirstWithId(catalog, item_id)
               failed == call'.ret \in {"not_found", "already_purchased",
                                       "not_enough_coins"}
           IN  /\ (call'.ret = "not_found") <=> (i = 0)
               /\ (call'.ret = "already_purchased")
                    <=> (i # 0 /\ ItemOf(item_id).purchased)
               /\ (call'.ret = "not_enough_coins")
                    <=> (/\ i # 0
                         /\ ~ItemOf(item_id).purchased
                         /\ ItemOf(item_id).cost > balance)
               /\ failed => /\ stateFile' = stateFile
                            /\ shopFile' = shopFile
                            /\ pc' = Idle]_vars

\* a purchase refused as already purchased although the funds are short
RefusedBeforeFunds ==
  /\ call.op = "purchase_shop_item"
  /\ call.ret = "already_purchased"
  /\ ItemOf(call.val).cost > balance

\* the award r deposits amount on the state file as it is and returns it
Deposits(r, amount) ==
  /\ r.ret = amount
  /\ get_coins(r.file) = balance + amount

\* C16: an award of multiplier m >= 1 raises the persisted balance by
\* exactly rate * m and returns that amount: 5 a chapter (15 for 3
\* chapters), the lower rate 3 a catch-up chapter, 15 a goal.
AwardDeposits ==
  /\ [](\A m \in 1..(MaxCount + 1) :
          /\ Deposits(award_bible_reading(stateFile, m, FALSE), 5 * m)
          /\ Deposits(award_bible_reading(stateFile, m, TRUE), 3 * m)
          /\ Deposits(award_goal_completed(stateFile, m), 15 * m))
  /\ [][/\ call'.op = "award_bible_reading" =>
             /\ call'.val \in {(IF call'.ret = "true" THEN 3 ELSE 5) * m :
                                 m \in Counts}
             /\ balance' = balance + call'.val
        /\ call'.op = "award_goal_completed" =>
             /\ call'.val \in {15 * m : m \in Counts}
             /\ balance' = balance + call'.val]_vars

\* an award of two catch-up chapters on top of a positive balance
CatchupAwarded ==
  /\ call.op = "award_bible_reading"
  /\ call.ret = "true"
  /\ call.val = 6
  /\ balance > 6

\* the difficulty is none of easy, medium, hard in any case of letters
UnknownTier(difficulty) == lower(difficulty) \notin {"easy", "medium", "hard"}

\* C17: award_leetcode and mark_problem_done given a difficulty that is no
\* tier do not fail: they deposit the easy amount, 10, and return it.
UnknownTierPaysEasy ==
  [][\A difficulty \in Tiers :
        UnknownTier(difficulty) =>
           /\ AwardLeetcode(difficulty)
              => call'.val = 10 /\ balance' = balance + 10
           /\ \A problem_id \in 1..Len(ProblemCatalog) :
                 MarkProblemDoneAs(difficulty, problem_id)
                 => call'.val = 10 /\ balance' = balance + 10]_vars

\* mark_problem_done has paid for a difficulty that is no tier
UnknownTierPaid ==
  /\ call.op = "mark_problem_done"
  /\ call.ret = "expert"
  /\ call.val = 10
  /\ balance >= 10

\* what update_shop_item makes of the catalog on file for one choice of its
\* arguments: nothing without the id, otherwise the provided fields of the
\* first item with the id and nothing else
UpdatesProvided(item_id, name, cost) ==
  LET items == get_shop_items(shopFile)
      r == update_shop_item(shopFile, item_id, name, cost)
      after == get_shop_items(r.file)
      i == FirstWithId(items, item_id)
  IN  /\ i = 0 => ~r.ret /\ r.file = shopFile
      /\ i # 0 =>
           /\ r.ret
           /\ Len(after) = Len(items)
           /\ \A j \in 1..Len(items) : j # i => after[j] = items[j]
           /\ after[i].id = items[i].id
           /\ after[i].purchased = items[i].purchased
           /\ after[i].name = (IF name = <<>> THEN items[i].name ELSE name[1])
           /\ after[i].cost = (IF cost = <<>> THEN items[i].cost ELSE cost[1])

\* C18: update_shop_item(id, name?, cost?) returns False and leaves the
\* catalog unchanged when no item has the id; otherwise it returns True and
\* the item gets the provided name and cost and keeps its id, its purchased
\* flag and a field that was not provided, every other item, the order and
\* the balance are unchanged.
UpdateChangesProvidedFields ==
  /\ [](\A item_id \in ItemIds(MaxCatalogItems),
           name \in Optional(CatalogNames), cost \in Optional(CatalogCosts) :
           UpdatesProvided(item_id, name, cost))
  /\ [][call'.op = "update_shop_item" =>
          /\ stateFile' = stateFile
          /\ call'.ret = "false" => shopFile' = shopFile
          /\ Len(catalog') = Len(catalog)
          /\ \A j \in 1..Len(catalog) :
                /\ catalog'[j].id = catalog[j].id
                /\ catalog'[j].purchased = catalog[j].purchased
          /\ \A j, k \in 1..Len(catalog) :
                catalog'[j] # catalog[j] /\ catalog'[k] # catalog[k] => j = k]_vars

\* an update has found its item in a catalog of two items, one purchased
UpdatedAmongTwo ==
  /\ call.op = "update_shop_item"
  /\ call.ret = "true"
  /\ Len(catalog) = 2
  /\ \E i \in 1..Len(catalog) : catalog[i].purchased
  /\ balance > 0

\* the items of a catalog other than those with the id, in their order
Others(items, item_id) == SelectSeq(items, LAMBDA item : item.id # item_id)

\* C19: delete_shop_item(id) returns False and leaves the catalog unchanged
\* when no item has the id; otherwise it returns True, no item with the id
\* is left, the catalog is shorter by exactly one, the other items keep
\* their fields and order, and the balance is unchanged.
DeleteRemovesOne ==
  [][\A item_id \in ItemIds(MaxCatalogItems) :
        DeleteShopItem(item_id) =>
           /\ stateFile' = stateFile
           /\ FirstWithId(catalog, item_id) = 0
                => call'.ret = "false" /\ shopFile' = shopFile
           /\ FirstWithId(catalog, item_id) # 0
                => /\ call'.ret = "true"
                   /\ FirstWithId(catalog', item_id) = 0
                   /\ Len(catalog') = Len(catalog) - 1
                   /\ catalog' = Others(catalog, item_id)]_vars

\* the default of each key of the state document
DefaultOf(k) ==
  CASE k = "last_run_date" -> NoneVal
    [] k = "coins" -> 0
    [] k = "completed_leetcode_ids" -> <<>>
    [] k = "bible_chapters_read" -> 0
    [] k = "start_date" -> <<2026, 1, 1>>

\* the value get_state is to give key k of a persisted document
Merged(persisted, k) ==
  IF k \in DOMAIN persisted THEN persisted[k] ELSE DefaultOf(k)

\* C20: get_state returns a document with all five keys in which each
\* persisted key keeps its persisted value and each missing key has its
\* default, and exactly the defaults when no document is persisted; an
\* operation that loads and saves persists that merged document.
LoadMergesDefaults ==
  /\ [](LET loaded == get_state(stateFile)
        IN  /\ StateKeys \subseteq DOMAIN loaded
            /\ \A k \in StateKeys : loaded[k] = Merged(stateFile.data, k)
            /\ ~stateFile.exists
                 => loaded = [k \in StateKeys |-> DefaultOf(k)])
  /\ [][\A count \in Counts :
          AwardGoalCompleted(count) =>
             /\ stateFile'.exists
             /\ StateKeys \subseteq DOMAIN stateFile'.data
             /\ \A k \in StateKeys \ {"coins"} :
                   stateFile'.data[k] = Merged(stateFile.data, k)
             /\ stateFile'.data["coins"]
                  = Merged(stateFile.data, "coins") + 15 * count]_vars

\* an award on a document that held a start date and no chapter counter
LoadedPartial ==
  /\ call.op = "award_goal_completed"
  /\ get_state(stateFile)["start_date"] = PersistedState["start_date"]
  /\ get_state(stateFile)["last_run_date"] = NoneVal
  /\ get_state(stateFile)["bible_chapters_read"] = 0
  /\ balance = PersistedState["coins"] + 15

\* C21: a missing, truncated or malformed persisted document never makes a
\* core operation fail: the load yields the defaults and the operation
\* completes without raising.
DamagedLoadsDefaults == call.ret # "JSONDecodeError"

\* the goals that are valid on day d: those of the last save, when it was
\* made on day d
ValidOn(d) ==
  IF saved # NoSave /\ saved[1].day = d THEN saved[1].goals ELSE <<>>

\* C22: after save_todays_goals(g) on day d, get_todays_goals returns g on
\* day d and the empty list on every other day, whatever other operations
\* ran in between.
GoalsOnlyOnTheirDay ==
  /\ [](\A d \in 0..MaxGoalHorizon :
          get_todays_goals(goalsFile, d) = ValidOn(d))
  /\ [][ShowGoals => call'.val = Len(ValidOn(today))]_vars

\* goals saved on an earlier day were asked for and none was returned
StaleGoalsHidden ==
  /\ call.op = "get_todays_goals"
  /\ call.day = today
  /\ call.val = 0
  /\ saved # NoSave
  /\ saved[1].day < today

\* C23: ran_today() is true exactly when last_run_date is today's date, it
\* is true right after mark_ran_today() and false once the date advances;
\* run_if_needed starts the morning routine at most once per calendar day.
DailyGate ==
  /\ ran_today(stateFile, today)
       <=> get_state(stateFile)["last_run_date"] = date_str(today)
  /\ \A d \in 0..MaxGateDay, e \in 0..(MaxGateDay + 1) :
        ran_today(mark_ran_today(stateFile, d), e) <=> d = e
  /\ \A i, j \in 1..Len(started) : started[i] = started[j] => i = j

\* the gate has started the routine on two days and now refuses, after 6am,
\* a second run on the later day
GateRefusedSecondRun ==
  /\ Len(started) = 2
  /\ started[2] = today
  /\ call.op = "run_if_needed"
  /\ call.ret = "false"
  /\ call.val = 6

\* C24: a negative cost is rejected by every add and update path, so every
\* item of the persisted catalog has cost >= 0 and a purchase never raises
\* the balance.
CostNeverNegative ==
  /\ [](\A i \in 1..Len(catalog) : catalog[i].cost >= 0)
  /\ [][call'.op = "purchase_shop_item" => balance' <= balance]_vars

\* the operations that write the shop document, and those that write the
\* state document
ShopOps == {"add_shop_item", "update_shop_item", "delete_shop_item"}
StateOps ==
  {"award_bible_reading", "award_goal_completed", "mark_problem_done",
   "step_bible", "step_leetcode", "run_morning_routine", "run_if_needed"}

\* C25: add_shop_item, update_shop_item and delete_shop_item never change
\* the state or the goals document; add_coins, spend_coins,
\* add_bible_chapters, mark_leetcode_completed and mark_ran_today never
\* change the shop or the goals document; save_todays_goals changes only the
\* goals document; purchase_shop_item alone writes two documents.
DocumentsIndependent ==
  [][/\ call'.op \in ShopOps
          => stateFile' = stateFile /\ goalsFile' = goalsFile
     /\ call'.op \in StateOps
          => shopFile' = shopFile /\ goalsFile' = goalsFile
     /\ call'.op \in {"step_goals", "get_todays_goals"}
          => stateFile' = stateFile /\ shopFile' = shopFile
     /\ call'.op = "purchase_shop_item" => goalsFile' = goalsFile
     /\ stateFile' # stateFile
          => call'.op \in StateOps \cup {"purchase_shop_item"}
     /\ shopFile' # shopFile
          => call'.op \in ShopOps \cup {"purchase_shop_item"}
     /\ goalsFile' # goalsFile => call'.op = "step_goals"]_vars

\* a purchase has written the state and the shop document beside saved
\* goals and a marked day
PurchaseWroteTwo ==
  /\ call.op = "purchase_shop_item"
  /\ call.ret = "purchased"
  /\ ItemOf(call.val).cost > 0
  /\ saved # NoSave
  /\ ran_today(stateFile, today)

\* both processes ran op to its end and it returned ret
BothReturned(op, ret) ==
  \A p \in Procs :
     procs[p].op = op /\ procs[p].at = "done" /\ procs[p].ret = ret

\* what the two processes were to add, or the costs of what they bought
Sum == procs[1].arg + procs[2].arg
CostOf(p) == get_shop_items(RaceShop)[procs[p].arg].cost

PurchaseOrder ==
  [][call'.op = "purchase_shop_item" =>
       /\ pc'.at = "debited" =>
            /\ pc.at = "idle"
            /\ ~ItemOf(call'.val).purchased
            /\ balance' = balance - ItemOf(call'.val).cost
            /\ shopFile' = shopFile
       /\ shopFile' # shopFile =>
            /\ pc.at = "debited"
            /\ pc'.at = "idle"
            /\ stateFile' = stateFile
            /\ ~pc.items[pc.idx].purchased
            /\ catalog' = [pc.items EXCEPT ![pc.idx].purchased = TRUE]
       /\ (/\ pc.at = "idle"
           /\ FirstWithId(catalog, call'.val) # 0
           /\ ItemOf(call'.val).purchased)
          => stateFile' = stateFile /\ pc'.at = "idle"]_vars

\* between the two writes: the debit of a positive cost is on file and the
\* item's flag is not
DebitedNotYetMarked ==
  /\ pc.at = "debited"
  /\ call.ret = "debited"
  /\ ItemOf(call.val).cost > 0
  /\ ~ItemOf(call.val).purchased

\* C28: a reader who starts on the start date with no chapter read and on
\* every day records exactly that day's chapters_today is never behind:
\* after the reading of day n the chapters read equal the expected chapters
\* of day n and behind is 0.
SteadyReaderOnPace ==
  ReadToday =>
    /\ chaptersRead = get_expected_chapters(stateFile, today)
    /\ get_reading_status(stateFile, today).behind = 0

\* the state loaded from file equals the state loaded now in every field
\* but those of keys
OnlyChanges(file, keys) ==
  LET before == get_state(stateFile)
      after == get_state(file)
  IN  /\ DOMAIN after = DOMAIN before
      /\ \A k \in DOMAIN before \ keys : after[k] = before[k]

\* C29: each mutation of the state document changes only its own field
\* across its load-modify-save: add_coins and spend_coins only coins,
\* add_bible_chapters only bible_chapters_read, mark_leetcode_completed only
\* completed_leetcode_ids, mark_ran_today only last_run_date; no operation
\* changes start_date.
FieldFrame ==
  /\ [](/\ \A amount \in 0..MaxCount :
             /\ OnlyChanges(add_coins(stateFile, amount).file, {"coins"})
             /\ OnlyChanges(spend_coins(stateFile, amount).file, {"coins"})
             /\ OnlyChanges(add_bible_chapters(stateFile, amount).file,
                            {"bible_chapters_read"})
        /\ \A problem_id \in 1..Len(ProblemCatalog) :
             OnlyChanges(mark_leetcode_completed(stateFile, problem_id),
                         {"completed_leetcode_ids"})
        /\ OnlyChanges(mark_ran_today(stateFile, today), {"last_run_date"}))
  /\ [][/\ OnlyChanges(stateFile',
                       {"coins", "bible_chapters_read",
                        "completed_leetcode_ids", "last_run_date"})
        /\ call'.op = "award_goal_completed"
             => OnlyChanges(stateFile', {"coins"})
        /\ call'.op = "run_morning_routine"
             => OnlyChanges(stateFile', {"last_run_date"})]_vars

\* the day was marked as run in a document that held a balance, a counter,
\* completed problems and a start date of its own
MarkedBesideOthers ==
  /\ call.op = "run_morning_routine"
  /\ call.ret = ""
  /\ ran_today(stateFile, today)
  /\ balance > 0
  /\ chaptersRead > 0
  /\ get_completed_leetcode_ids(stateFile) # {}
  /\ get_state(stateFile)["start_date"] # default_state["start_date"]

completedIds == get_state(stateFile)["completed_leetcode_ids"]

\* what mark_problem_done pays for the problem of this id
RewardOf(problem_id) ==
  LET problem == CHOOSE p \in {ProblemCatalog[i] : i \in 1..Len(ProblemCatalog)} :
                   p.id = problem_id
      d == CHOOSE d \in Difficulties : DifficultyLevel[d] = problem.level
  IN  DIFFICULTY_COINS[d]

RECURSIVE PracticeCoins(_)
PracticeCoins(ids) ==
  IF ids = <<>> THEN 0 ELSE RewardOf(Head(ids)) + PracticeCoins(Tail(ids))

\* C30: over morning routines of one process the completed-id list holds no
\* id twice, get_available_problems offers no completed problem, and the
\* coins paid for practice are one reward for each completed id: a
\* step_leetcode that pays appends one id that was not completed, and no
\* other step changes the list.
RewardedOnce ==
  /\ [](/\ \A i, j \in 1..Len(completedIds) :
             i # j => completedIds[i] # completedIds[j]
        /\ \A difficulty \in Difficulties :
             get_available_problems(stateFile, difficulty)
               \cap get_completed_leetcode_ids(stateFile) = {}
        /\ balance = PracticeCoins(completedIds))
  /\ [][IF routine = "leetcode" /\ call'.op = "mark_problem_done"
        THEN \E problem_id \in 1..Len(ProblemCatalog) :
               /\ problem_id \notin get_completed_leetcode_ids(stateFile)
               /\ completedIds' = Append(completedIds, problem_id)
               /\ balance' = balance + RewardOf(problem_id)
        ELSE /\ completedIds' = completedIds
             /\ balance' = balance]_vars

\* the easy problem was paid on an earlier morning and a later routine that
\* asked for an easy problem was offered none
PaidThenWithheld ==
  /\ call.op = "step_leetcode"
  /\ call.ret = "easy"
  /\ call.val = 0
  /\ 1 \in get_completed_leetcode_ids(stateFile)
  /\ balance >= DIFFICULTY_COINS["easy"]
  /\ today > 0

\* C31: run_morning_routine persists last_run_date = today before its first
\* step: the routine enters its goals step with the day marked, no step and
\* no interrupt unmarks the day while the date stays, and a marked day makes
\* run_if_needed return False at every hour without starting the routine.
MarkedBeforeFirstStep ==
  /\ [](ran_today(stateFile, today)
          => \A hour \in Hours : ~run_if_needed(stateFile, today, hour).ran)
  /\ [][/\ routine = NoRoutine /\ routine' # NoRoutine
             => /\ routine' = "goals"
                /\ ran_today(stateFile', today')
                /\ get_state(stateFile')["last_run_date"] = date_str(today)
        /\ ran_today(stateFile, today) /\ today' = today
             => ran_today(stateFile', today')
        /\ call'.ret = "interrupted" => stateFile' = stateFile
        /\ (/\ routine = NoRoutine
            /\ ran_today(stateFile, today)
            /\ today' = today
            /\ call'.op = "run_if_needed")
             => /\ call'.ret = "false"
                /\ routine' = NoRoutine
                /\ started' = started]_vars

\* the routine was interrupted before its reading step on the first day it
\* ran, and the gate, asked after 6am on that day, refused to start it again
InterruptedThenRefused ==
  /\ call.op = "run_if_needed"
  /\ call.ret = "false"
  /\ call.val = 6
  /\ routine = NoRoutine
  /\ ran_today(stateFile, today)
  /\ panel = NoPanel
  /\ balance = 0

====
